---- MODULE Spec2Model ----
(***************************************************************************)
(* Model of the grpc-debugger panel core:                                  *)
(*   - the schema store (src/src/stores/schema.js): auto-reflection with   *)
(*     per-origin promise coalescing,                                      *)
(*   - the network store (src/src/stores/network.js): addLog, processEntry *)
(*     and reprocessAllLogs over the shared log,                           *)
(*   - the gRPC-Web transport framing (src/src/lib/grpc-web-transport.js). *)
(*                                                                         *)
(* JavaScript is single threaded: one action is one synchronous run of a   *)
(* handler or of an async function's continuation, from the point where    *)
(* it is resumed to its next await.  Continuations of settled promises     *)
(* run in the order they were queued (the microtask queue, `ready`), and   *)
(* a new task (a message, a server answer, a finished decompression) is    *)
(* taken only when that queue is empty.                                    *)
(***************************************************************************)
EXTENDS Integers, Sequences, FiniteSets, TLC

\* ------------------------------------------------------------------ bounds
MaxCalls == 2
MaxReprocessCalls == 3
NumIds == 3
NumOrigins == 2
MaxRegs == 1
MaxFrames == 2
MaxPayloadLen == 2
MaxMessages == 3

\* the clearAllSchemas calls of a run
MaxClears == 1

\* the registrations an engine is given
MaxRegistrations == 3

\* the files of a file map and the dependencies of a file
NumSortFiles == 3
MaxDeps == 2

\* the dependencies of all files of a file map together
MaxEdges == 3

\* the file descriptors a reflection fetch collected
MaxCollected == 2

\* the bytes of a buffer given to a reader, and the reads made on it
MaxBufLen == 4
MaxReads == 3

\* the capture layer: intercepted bodies, HAR entries, and the retries of
\* processEntry (30 in devtools.js)
MaxBodies == 2
NumEntries == 2
MaxRetries == 2

\* the networkLog actions dispatched to the Redux slice
MaxPayloads == 3

\* the dependencies the files of a reflection server name together
MaxFetchEdges == 2

\* the fields of a decoded buffer
MaxPieces == 3

\* the bytes of a length-delimited field
MaxFieldLen == 6

\* ------------------------------------------------- strings as char tuples
\* characters: 0 is "/", 1..9 lower-case letters, 11..19 their upper case
ToLower(c) == IF c > 10 THEN c - 10 ELSE c

LowerStr(s) == [i \in 1..Len(s) |-> ToLower(s[i])]

EndsWith(s, suf) ==
  /\ Len(suf) <= Len(s)
  /\ SubSeq(s, Len(s) - Len(suf) + 1, Len(s)) = suf

PathAB == <<0, 1, 0, 2>>
PathAC == <<0, 1, 0, 3>>
PathB == <<0, 2>>
PathABUpper == <<0, 11, 0, 12>>

\* the paths a captured URL can carry, and the method paths a schema can hold
UrlPaths == <<PathAB, PathAC, PathB, PathABUpper>>
SchemaChoices == {{PathAB}, {PathAB, PathAC}, {}}

Origins == 1..NumOrigins
Ids == 1..NumIds
Calls == 1..MaxCalls

\* the capture layer builds id as startedDateTime + '_' + url: id fixes the url
OriginOfId(id) == ((id - 1) % NumOrigins) + 1
PathOfId(id) == UrlPaths[(((id - 1) \div NumOrigins) % Len(UrlPaths)) + 1]

VARIABLES
  reflectedServers,
  reflectionPromises,
  fetches,
  localProtoRegistered,
  serviceMap,
  reflectionStatus,
  objs,
  log,
  calls,
  tasks,
  ncalls,
  nregs,
  captured,
  owed,
  ready,
  flushing,
  payloads,
  nframed,
  wire,
  pos,
  unframed,
  returned,
  fpc,
  frameFlags,
  trailing,
  buffer,
  xpc,
  xpos,
  chunks,
  hasFraming,
  extracted,
  rawData,
  isBase64,
  contentType,
  grpcEncoding,
  connectEncoding,
  payload,
  stages,
  registry,
  schemas,
  services,
  nclears,
  typeName,
  found,
  input,
  decodedValue,
  fileSet,
  fileMap,
  sorted,
  visited,
  visiting,
  sortStack,
  keyAt,
  sortPc,
  warned,
  collected,
  built,
  fetchPc,
  versionAt,
  svcNames,
  svcAt,
  loadedFiles,
  loadStack,
  contacts,
  unanswered,
  fetchResult,
  family,
  rbuf,
  cursor,
  nreads,
  lastRead,
  capturedBodies,
  pendingEntries,
  panelWindow,
  panelReady,
  flushTimer,
  dispatched,
  harEntries,
  intercepted,
  attached,
  state,
  received

schemaVars == <<reflectedServers, reflectionPromises, fetches,
                localProtoRegistered, serviceMap, reflectionStatus>>
logVars == <<objs, log, calls, tasks, ncalls, nregs, captured, owed,
             ready, flushing>>
storeVars == <<reflectedServers, reflectionPromises, fetches,
               localProtoRegistered, serviceMap, reflectionStatus,
               objs, log, calls, tasks, ncalls, nregs, captured, owed,
               ready, flushing>>
extractVars == <<buffer, xpc, xpos, chunks, hasFraming, extracted,
                 rawData, isBase64, contentType, grpcEncoding,
                 connectEncoding, payload, stages>>
frameVars == <<payloads, nframed, wire, pos, unframed, returned, fpc,
               frameFlags, trailing,
               buffer, xpc, xpos, chunks, hasFraming, extracted,
               rawData, isBase64, contentType, grpcEncoding,
               connectEncoding, payload, stages>>
\* the engine's registry and indices, and the services store
engineVars == <<registry, schemas, services, nclears>>
\* a findMessage or decodeMessage call: its arguments and its result
codecVars == <<typeName, found, input, decodedValue>>
\* the descriptors registered so far, by file name: what the registrations so
\* far amount to when a file registered again replaces the file of that name
historyVars == <<fileSet>>
\* a _topologicalSort call, a reflection fetch, a reader and the capture layer
sortVars == <<fileMap, sorted, visited, visiting, sortStack, keyAt, sortPc, warned,
              collected, built>>
clientVars == <<fetchPc, versionAt, svcNames, svcAt, loadedFiles, loadStack,
                contacts, unanswered, fetchResult>>
readerVars == <<family, rbuf, cursor, nreads, lastRead>>
captureVars == <<capturedBodies, pendingEntries, panelWindow, panelReady,
                 flushTimer, dispatched, harEntries, intercepted, attached>>
\* the Redux network slice, and the records it was given
sliceVars == <<state, received>>
toolVars == <<sortVars, clientVars, readerVars, captureVars, sliceVars>>
auxVars == <<historyVars, toolVars>>
vars == <<reflectedServers, reflectionPromises, fetches,
          localProtoRegistered, serviceMap, reflectionStatus,
          objs, log, calls, tasks, ncalls, nregs, captured, owed,
          ready, flushing,
          payloads, nframed, wire, pos, unframed, returned, fpc,
          frameFlags, trailing,
          buffer, xpc, xpos, chunks, hasFraming, extracted,
          rawData, isBase64, contentType, grpcEncoding, connectEncoding,
          payload, stages,
          registry, schemas, services, nclears,
          typeName, found, input, decodedValue,
          fileSet,
          fileMap, sorted, visited, visiting, sortStack, keyAt, sortPc, warned,
          collected, built,
          fetchPc, versionAt, svcNames, svcAt, loadedFiles, loadStack,
          contacts, unanswered, fetchResult,
          family, rbuf, cursor, nreads, lastRead,
          capturedBodies, pendingEntries, panelWindow, panelReady, flushTimer,
          dispatched, harEntries, intercepted, attached,
          state, received>>

\* ------------------------------------------------------------ protoEngine
\* ProtoEngine.findMethod: exact match, then case-insensitive suffix match
findMethod(map, path) ==
  \/ path \in map
  \/ \E registered \in map : EndsWith(LowerStr(registered), LowerStr(path))

FirstIndex(S) == IF S = {} THEN 0 ELSE CHOOSE i \in S : \A j \in S : i <= j

\* typeName.replace(/^\.+/, ''); the character 10 is "."
RECURSIVE cleanName(_)
cleanName(name) ==
  IF name # <<>> /\ Head(name) = 10 THEN cleanName(Tail(name)) ELSE name

\* this.registry = null
NoRegistry == [isNull |-> TRUE, names |-> {}]

\* no descriptor: what findMessage returns as null
NoDesc == [isNull |-> TRUE, fullName |-> <<>>, desc |-> FALSE]

\* a message definition of the engine's indices; desc tells whether it is,
\* or carries as _desc, a DescMessage of the official library
Def(name, desc) == [isNull |-> FALSE, fullName |-> name, desc |-> desc]

\* Map.prototype.set on this.schemas: a new key is added last, a key that
\* is present keeps its place
mapSet(sch, key, def) ==
  IF \E i \in DOMAIN sch : sch[i].key = key
    THEN [i \in DOMAIN sch |->
            IF sch[i].key = key THEN [key |-> key, def |-> def] ELSE sch[i]]
    ELSE Append(sch, [key |-> key, def |-> def])

\* ProtoEngine.findMessage: the official registry, then the schemas index
\* by exact name, then its first key with the name as a dotted suffix
findMessage(reg, sch, name) ==
  LET clean == cleanName(name)
      exact == {i \in DOMAIN sch : sch[i].key = clean}
      suffix == {i \in DOMAIN sch :
                   EndsWith(sch[i].key, <<10>> \o clean) \/ sch[i].key = clean}
  IN IF name = <<>> THEN NoDesc
     ELSE IF ~reg.isNull /\ clean \in reg.names THEN Def(clean, TRUE)
     ELSE IF exact # {} THEN sch[FirstIndex(exact)].def
     ELSE IF suffix # {} THEN sch[FirstIndex(suffix)].def
     ELSE NoDesc

\* ProtoEngine.registerSchema(data): this.registry
registryAfter(reg, data) == IF data.registry.isNull THEN reg ELSE data.registry

\* ProtoEngine.registerSchema(data): this.schemas, one set per message
RECURSIVE schemasAfter(_, _)
schemasAfter(sch, messages) ==
  IF messages = <<>> THEN sch
  ELSE schemasAfter(mapSet(sch, cleanName(Head(messages).key), Head(messages).def),
                    Tail(messages))

\* registerSchema of the schema store without the findIndex: every service
\* is pushed
servicesAfterPush(list, added) == list \o added

\* registerSchema(data, source) of the schema store: the services list, a
\* service replaced in place when its fullName is in the list
RECURSIVE servicesAfter(_, _)
servicesAfter(list, added) ==
  IF added = <<>> THEN list
  ELSE LET service == Head(added)
           at == {i \in DOMAIN list : list[i].fullName = service.fullName}
       IN servicesAfter(IF at = {} THEN Append(list, service)
                        ELSE [list EXCEPT ![FirstIndex(at)] = service],
                        Tail(added))

\* the request type of the method at /service/Method: "service.Method"
typeOfPath(path) == <<path[2], 10, path[4] + 10>>

\* the names of the files of a FileDescriptorSet; 0 stands for the data that
\* registerSchema is given without files
FileNames == {1, 2}

NoFile == [messages |-> {}, methods |-> {}]

NoFiles == [n \in FileNames \cup {0} |-> NoFile]

\* the descriptor set after registerSchema(data): the messages and methods
\* of data are added to those registered without a file
looseAfter(files, data) ==
  [files EXCEPT ![0] =
     [messages |-> @.messages \cup {cleanName(data.messages[i].key) :
                                      i \in DOMAIN data.messages},
      methods |-> @.methods \cup data.paths]]

\* the data a reflection result or a registerSchema message carries for the
\* methods at `paths`: official tells whether a FileRegistry was built
schemaData(paths, official) ==
  LET listed == SelectSeq(UrlPaths, LAMBDA u : u \in paths)
      names == {typeOfPath(u) : u \in paths}
  IN [paths |-> paths,
      messages |-> [i \in DOMAIN listed |->
                      [key |-> typeOfPath(listed[i]),
                       def |-> Def(typeOfPath(listed[i]), official)]],
      services |-> IF paths = {} THEN <<>>
                   ELSE <<[fullName |-> 1,
                           methods |-> {u[4] : u \in paths}]>>,
      registry |-> IF official THEN [isNull |-> FALSE, names |-> names]
                   ELSE NoRegistry]

\* ProtoEngine.decodeMessage as processEntry uses it: against the method's
\* type when the method resolved, blind (typeName null) otherwise
decodeMessage(methodInfo) == IF methodInfo THEN "typed" ELSE "blind"

\* ------------------------------------------------------------ schema store
\* tryAutoReflection up to its first await: which of its branches is taken.
\*   "skip"  local proto registered and the method resolves: return false
\*   "done"  reflectedServers has the origin: return false
\*   "join"  a promise is in reflectionPromises: await it
\*   "start" performReflection is called and its promise stored
tryAutoReflectionNoJoin(local, map, reflected, promises, origin, path) ==
  IF local /\ map # {} /\ findMethod(map, path) THEN "skip"
  ELSE IF origin \in reflected THEN "done"
  ELSE "start"

tryAutoReflection(local, map, reflected, promises, origin, path) ==
  IF local /\ map # {} /\ findMethod(map, path) THEN "skip"
  ELSE IF origin \in reflected THEN "done"
  ELSE IF promises[origin] # 0 THEN "join"
  ELSE "start"

\* performReflection after fetchFromServer settled: the value its promise
\* resolves to (result is [kind |-> "schema", paths |-> S], "null" or "throw")
performReflectionValue(result) == result.kind = "schema"

reflectedAfterSuccessOnly(reflected, origin, result) ==
  IF result.kind = "schema" THEN reflected \cup {origin} ELSE reflected

\* performReflection: reflectedServers.add(origin) on all three paths
reflectedAfter(reflected, origin, result) == reflected \cup {origin}

\* ProtoEngine.registerSchema: one serviceMap entry per service method
registerSchema(map, paths) == map \cup paths

\* what a caller that awaited reflectionPromises.get(origin) returns
waiterResult(reflected, origin, value) == origin \in reflected

\* what the caller that started the fetch returns
ownerResult(reflected, origin, value) == value

\* the outcomes of reflectionClient.fetchFromServer
FetchResults ==
  {[kind |-> "schema", paths |-> S, official |-> FALSE] : S \in SchemaChoices}
    \cup {[kind |-> "null", paths |-> {}, official |-> FALSE],
          [kind |-> "throw", paths |-> {}, official |-> FALSE]}

\* ------------------------------------------------------------ network store
\* processEntry: the next decode stage it awaits, or "end"
nextStage(obj, from, force) ==
  IF from = "start" /\ obj.requestRaw # 0 /\ (force \/ obj.request = "none")
    THEN "req"
  ELSE IF obj.responseRaw # 0 /\ (force \/ obj.response = "none")
    THEN "resp"
  ELSE "end"

withRequestOverRaw(obj, methodInfo) ==
  [obj EXCEPT !.request = decodeMessage(methodInfo), !.requestRaw = -1]

\* processEntry: entry.request = protoEngine.decodeMessage(typeName, payload)
withRequest(obj, methodInfo) ==
  [obj EXCEPT !.request = decodeMessage(methodInfo)]

\* processEntry: entry.response = protoEngine.decodeMessage(typeName, payload)
withResponse(obj, methodInfo) ==
  [obj EXCEPT !.response = decodeMessage(methodInfo)]

Abs(n) == IF n < 0 THEN -n ELSE n


\* addLog without the findIndex by id: the fuzzy match only
fuzzyIdx(heap, list, entry) ==
  FirstIndex({i \in DOMAIN list :
    /\ heap[list[i]].path = entry.path
    /\ 2 * Abs(heap[list[i]].startTime - entry.startTime) < 3
    /\ heap[list[i]].status = "pending"})

\* addLog: list.findIndex by id, then the fuzzy match on a pending record
existingIdx(heap, list, entry) ==
  LET byId == FirstIndex({i \in DOMAIN list : heap[list[i]].id = entry.id})
  IN IF byId # 0 THEN byId
     ELSE FirstIndex({i \in DOMAIN list :
            /\ heap[list[i]].path = entry.path
            /\ 2 * Abs(heap[list[i]].startTime - entry.startTime) < 3
            /\ heap[list[i]].status = "pending"})

\* addLog: the merged record {...old, ...entry, request, requestRaw, status}
mergeEntry(old, entry) ==
  [entry EXCEPT
     !.request = IF entry.request # "none" THEN entry.request ELSE old.request,
     !.requestRaw = IF entry.requestRaw # 0 THEN entry.requestRaw
                    ELSE old.requestRaw,
     !.status = IF entry.status # "none" THEN entry.status ELSE "finished",
     !.call = old.call]

\* the grpc-encoding and content-type headers an entry can carry
Headers == {"gzip", "grpc", "plain"}

\* extractPayload(data, isBase64, headers): the microtask turns from its call
\* to the resumption of the processEntry that awaits it.  With gzip it
\* awaits the DecompressionStream reader, which settles in a later task (0);
\* with a grpc content type it awaits extractGrpcFrames and then returns (2);
\* otherwise it returns the buffer without awaiting (1)
extractTurns(headers) ==
  CASE headers = "gzip" -> 0
    [] headers = "grpc" -> 2
    [] OTHER -> 1

IdleCall == [pc |-> "idle", entry |-> 0, isNew |-> FALSE, promise |-> 0,
             methodInfo |-> FALSE, role |-> "none", resolvedAtCall |-> FALSE,
             turns |-> 0]

\* the module state of the stores and the engine, with `heap` the entry
\* objects that exist and `list` the records of the log
StoreWith(callSet, heap, list) ==
  /\ reflectedServers = {}
  /\ reflectionPromises = [o \in Origins |-> 0]
  /\ fetches = <<>>
  /\ localProtoRegistered = FALSE
  /\ serviceMap = {}
  /\ reflectionStatus = "null"
  /\ objs = heap
  /\ log = list
  /\ calls = [p \in callSet |-> IdleCall]
  /\ tasks = [p \in callSet |-> <<>>]
  /\ ncalls = 0
  /\ nregs = 0
  /\ captured = {}
  /\ owed = {}
  /\ ready = <<>>
  /\ flushing = FALSE
  /\ registry = NoRegistry
  /\ schemas = <<>>
  /\ services = <<>>
  /\ nclears = 0
  /\ fileSet = NoFiles

StoreInit(callSet) == StoreWith(callSet, <<>>, <<>>)

\* entry.request or entry.response not yet assigned
NoValue == [kind |-> "none"]

NoResult == [isNull |-> TRUE, payloads |-> <<>>]

NoBuffer == [isNull |-> TRUE, bytes |-> <<>>]

ExtractIdle ==
  /\ buffer = <<>>
  /\ xpc = "off"
  /\ xpos = 0
  /\ chunks = <<>>
  /\ hasFraming = FALSE
  /\ extracted = NoBuffer
  /\ rawData = [text |-> FALSE, codes |-> <<>>]
  /\ isBase64 = FALSE
  /\ contentType = ""
  /\ grpcEncoding = ""
  /\ connectEncoding = ""
  /\ payload = NoBuffer
  /\ stages = <<>>

\* no _topologicalSort call has been made
SortIdle ==
  /\ fileMap = <<>>
  /\ sorted = <<>>
  /\ visited = {}
  /\ visiting = {}
  /\ sortStack = <<>>
  /\ keyAt = 1
  /\ sortPc = "off"
  /\ warned = <<>>
  /\ collected = <<>>
  /\ built = NoValue

\* no reflection fetch, no reader and no capture
ClientIdle ==
  /\ fetchPc = "off"
  /\ versionAt = 1
  /\ svcNames = <<>>
  /\ svcAt = 1
  /\ loadedFiles = {}
  /\ loadStack = <<>>
  /\ contacts = <<>>
  /\ unanswered = {}
  /\ fetchResult = NoValue

NoRead == [op |-> "none", wireType |-> 0, from |-> 0, to |-> 0, ok |-> TRUE]

ReaderIdle ==
  /\ family = "none"
  /\ rbuf = <<>>
  /\ cursor = 0
  /\ nreads = 0
  /\ lastRead = NoRead

\* initialState of the slice: log, _filterValue and _logBak
initialState == [log |-> <<>>, filterValue |-> "", logBak |-> <<>>]

SliceIdle ==
  /\ state = initialState
  /\ received = <<>>

CaptureIdle ==
  /\ capturedBodies = <<>>
  /\ pendingEntries = <<>>
  /\ panelWindow = "null"
  /\ panelReady = FALSE
  /\ flushTimer = FALSE
  /\ dispatched = <<>>
  /\ harEntries = <<>>
  /\ intercepted = <<>>
  /\ attached = <<>>

ToolIdle == SortIdle /\ ClientIdle /\ ReaderIdle /\ CaptureIdle /\ SliceIdle

\* no findMessage or decodeMessage call has been made
CodecIdle ==
  /\ typeName = <<>>
  /\ found = NoValue
  /\ input = <<>>
  /\ decodedValue = NoValue

FrameIdle ==
  /\ payloads = <<>>
  /\ nframed = 0
  /\ wire = <<>>
  /\ pos = 0
  /\ unframed = <<>>
  /\ returned = NoResult
  /\ fpc = "off"
  /\ frameFlags = <<>>
  /\ trailing = <<>>
  /\ ExtractIdle

Init == StoreInit(Calls) /\ FrameIdle /\ CodecIdle /\ ToolIdle

\* ------------------------------------------------------------- event loop
\* a continuation is <<p, 0>>, the addLog call p itself, or <<p, i>>, the
\* processEntry(entry, true) that p's reprocessAllLogs started on record i

\* the continuation is the microtask the event loop runs next
IsNext(item) == ready # <<>> /\ Head(ready) = item

\* a new task starts: the microtask queue has drained
TaskBoundary == ready = <<>>

\* an `await extractPayload(...)` resumes: as the next microtask when this is
\* its last turn, as a task of its own when the decompression finished
Resumes(item, turns) ==
  \/ turns = 1 /\ IsNext(item)
  \/ turns = 0 /\ TaskBoundary

\* the queue once the running continuation has been taken off it
Rest(item) == IF IsNext(item) THEN Tail(ready) ELSE ready

\* `await extractPayload(...)` is reached: queued unless it decompresses
awaitExtract(queue, item, headers) ==
  IF extractTurns(headers) > 0 THEN Append(queue, item) ELSE queue

RECURSIVE Ascending(_)
Ascending(S) ==
  IF S = {} THEN <<>>
  ELSE LET m == CHOOSE x \in S : \A y \in S : x <= y
       IN <<m>> \o Ascending(S \ {m})

\* the callers awaiting promise k, in the order their awaits were reached:
\* the caller that started the fetch, then those that joined, in call order
awaiting(k) ==
  LET ps == Ascending({p \in DOMAIN calls :
                         /\ calls[p].promise = k
                         /\ calls[p].pc \in {"owner", "waiting"}})
  IN [i \in DOMAIN ps |-> <<ps[i], 0>>]

\* addLog(entry) up to `await tryAutoReflection(entry.url)`, which runs
\* tryAutoReflection up to its own first await (and, on "start",
\* performReflection up to `await reflectionClient.fetchFromServer(origin)`).
\* It is called from a message handler, a task of its own, or from the
\* flushPendingEntries loop, back to back with the call before it
AddLogStart(p, id, reqRaw, respRaw, headers) ==
  LET origin == OriginOfId(id)
      path == PathOfId(id)
      entry == [id |-> id, origin |-> origin, path |-> path,
                requestRaw |-> reqRaw, responseRaw |-> respRaw,
                request |-> "none", response |-> "none",
                status |-> "finished", startTime |-> id, call |-> p,
                headers |-> headers]
      branch == tryAutoReflection(localProtoRegistered, serviceMap,
                                  reflectedServers, reflectionPromises,
                                  origin, path)
      k == Len(fetches) + 1
  IN /\ p \in DOMAIN calls
     /\ p = ncalls + 1
     /\ calls[p].pc = "idle"
     /\ TaskBoundary \/ flushing
     /\ flushing' = TRUE
     /\ ncalls' = p
     /\ objs' = Append(objs, entry)
     /\ captured' = captured \cup
          {[id |-> id, requestRaw |-> reqRaw, responseRaw |-> respRaw]}
     /\ IF branch = "start"
          THEN /\ fetches' = Append(fetches, [origin |-> origin, state |-> "pending"])
               /\ reflectionPromises' = [reflectionPromises EXCEPT ![origin] = k]
               /\ reflectionStatus' = "loading"
          ELSE UNCHANGED <<fetches, reflectionPromises, reflectionStatus>>
     /\ ready' = IF branch \in {"skip", "done"}
                   THEN Append(ready, <<p, 0>>) ELSE ready
     /\ calls' = [calls EXCEPT ![p] =
          [pc |-> CASE branch = "start" -> "owner"
                    [] branch = "join" -> "waiting"
                    [] OTHER -> "process",
           entry |-> Len(objs) + 1,
           isNew |-> FALSE,
           promise |-> CASE branch = "start" -> k
                         [] branch = "join" -> reflectionPromises[origin]
                         [] OTHER -> 0,
           methodInfo |-> FALSE,
           role |-> branch,
           resolvedAtCall |-> findMethod(serviceMap, path),
           turns |-> 0]]
     /\ UNCHANGED <<reflectedServers, localProtoRegistered, serviceMap,
                    log, tasks, nregs, owed>>
     /\ UNCHANGED frameVars
     /\ UNCHANGED engineVars
     /\ UNCHANGED codecVars
     /\ UNCHANGED auxVars

\* fetchFromServer settles, in a task of its own, and performReflection runs
\* to its return: its promise settles and the awaiting callers are queued
FetchComplete(k, result) ==
  LET origin == fetches[k].origin
      map == IF result.kind = "schema"
               THEN registerSchema(serviceMap, result.paths) ELSE serviceMap
      data == schemaData(result.paths, result.official)
  IN /\ k \in DOMAIN fetches
     /\ fetches[k].state = "pending"
     /\ TaskBoundary
     /\ flushing' = FALSE
     /\ ready' = awaiting(k)
     /\ serviceMap' = map
     /\ reflectedServers' = reflectedAfter(reflectedServers, origin, result)
     /\ reflectionStatus' = IF result.kind = "schema" THEN "success" ELSE "failed"
     /\ fetches' = [fetches EXCEPT ![k].state =
                      IF performReflectionValue(result) THEN "true" ELSE "false"]
     /\ owed' = IF result.kind = "schema"
                  THEN owed \cup {objs[log[i]].call : i \in
                         {j \in DOMAIN log : /\ objs[log[j]].requestRaw # 0
                                             /\ findMethod(map, objs[log[j]].path)}}
                  ELSE owed
     /\ IF result.kind = "schema"
          THEN /\ registry' = registryAfter(registry, data)
               /\ schemas' = schemasAfter(schemas, data.messages)
               /\ services' = servicesAfter(services, data.services)
          ELSE UNCHANGED <<registry, schemas, services>>
     /\ UNCHANGED <<reflectionPromises, localProtoRegistered, objs, log, calls,
                    tasks, ncalls, nregs, captured, nclears>>
     /\ fileSet' = IF result.kind = "schema" THEN looseAfter(fileSet, data)
                   ELSE fileSet
     /\ UNCHANGED frameVars
     /\ UNCHANGED codecVars
     /\ UNCHANGED toolVars

\* the caller that started the fetch resumes after `await promise` and
\* returns: the addLog that awaits it is queued
OwnerResume(p) ==
  LET k == calls[p].promise
      origin == fetches[k].origin
  IN /\ calls[p].pc = "owner"
     /\ IsNext(<<p, 0>>)
     /\ ready' = Append(Tail(ready), <<p, 0>>)
     /\ flushing' = FALSE
     /\ reflectionPromises' = [reflectionPromises EXCEPT ![origin] = 0]
     /\ calls' = [calls EXCEPT ![p].pc = "process",
                               ![p].isNew = ownerResult(reflectedServers, origin,
                                                        fetches[k].state = "true")]
     /\ UNCHANGED <<reflectedServers, fetches, localProtoRegistered, serviceMap,
                    reflectionStatus, objs, log, tasks, ncalls, nregs,
                    captured, owed>>
     /\ UNCHANGED frameVars
     /\ UNCHANGED engineVars
     /\ UNCHANGED codecVars
     /\ UNCHANGED auxVars

\* a caller that joined resumes after `await reflectionPromises.get(origin)`
\* and returns: the addLog that awaits it is queued
WaiterResume(p) ==
  LET k == calls[p].promise
      origin == fetches[k].origin
  IN /\ calls[p].pc = "waiting"
     /\ IsNext(<<p, 0>>)
     /\ ready' = Append(Tail(ready), <<p, 0>>)
     /\ flushing' = FALSE
     /\ calls' = [calls EXCEPT ![p].pc = "process",
                               ![p].isNew = waiterResult(reflectedServers, origin,
                                                         fetches[k].state = "true")]
     /\ UNCHANGED <<reflectedServers, reflectionPromises, fetches,
                    localProtoRegistered, serviceMap, reflectionStatus, objs,
                    log, tasks, ncalls, nregs, captured, owed>>
     /\ UNCHANGED frameVars
     /\ UNCHANGED engineVars
     /\ UNCHANGED codecVars
     /\ UNCHANGED auxVars

\* records owed a re-decode that this typed request decode settles
Settled(obj, methodInfo) == IF methodInfo THEN {obj.call} ELSE {}

\* processEntry(entry) called from addLog, which resumed after
\* `await tryAutoReflection(entry.url)`: findMethod, up to its first await;
\* with nothing to decode it returns and the addLog awaiting it is queued
ProcessStart(p) ==
  LET e == calls[p].entry
      stage == nextStage(objs[e], "start", FALSE)
  IN /\ calls[p].pc = "process"
     /\ IsNext(<<p, 0>>)
     /\ ready' = IF stage = "end" THEN Append(Tail(ready), <<p, 0>>)
                 ELSE awaitExtract(Tail(ready), <<p, 0>>, objs[e].headers)
     /\ flushing' = FALSE
     /\ calls' = [calls EXCEPT
          ![p].methodInfo = findMethod(serviceMap, objs[e].path),
          ![p].pc = IF stage = "end" THEN "update" ELSE stage,
          ![p].turns = IF stage = "end" THEN 0
                       ELSE extractTurns(objs[e].headers)]
     /\ UNCHANGED <<objs, log, tasks, ncalls, nregs, captured, owed>>
     /\ UNCHANGED schemaVars
     /\ UNCHANGED frameVars
     /\ UNCHANGED engineVars
     /\ UNCHANGED codecVars
     /\ UNCHANGED auxVars

\* extractPayload resumes after `await extractGrpcFrames(buffer)` and
\* returns: the processEntry that awaits it is queued
ExtractTurn(p) ==
  /\ calls[p].pc \in {"req", "resp"}
  /\ calls[p].turns > 1
  /\ IsNext(<<p, 0>>)
  /\ ready' = Append(Tail(ready), <<p, 0>>)
  /\ flushing' = FALSE
  /\ calls' = [calls EXCEPT ![p].turns = calls[p].turns - 1]
  /\ UNCHANGED <<objs, log, tasks, ncalls, nregs, captured, owed>>
  /\ UNCHANGED schemaVars
  /\ UNCHANGED frameVars
  /\ UNCHANGED engineVars
  /\ UNCHANGED codecVars
  /\ UNCHANGED auxVars

\* processEntry resumes after `await extractPayload(entry.requestRaw, ...)`
ProcessRequest(p) ==
  LET e == calls[p].entry
      decoded == withRequest(objs[e], calls[p].methodInfo)
      stage == nextStage(decoded, "req", FALSE)
  IN /\ calls[p].pc = "req"
     /\ Resumes(<<p, 0>>, calls[p].turns)
     /\ ready' = IF stage = "end" THEN Append(Rest(<<p, 0>>), <<p, 0>>)
                 ELSE awaitExtract(Rest(<<p, 0>>), <<p, 0>>, objs[e].headers)
     /\ flushing' = FALSE
     /\ objs' = [objs EXCEPT ![e] = decoded]
     /\ owed' = owed \ Settled(objs[e], calls[p].methodInfo)
     /\ calls' = [calls EXCEPT
          ![p].pc = IF stage = "end" THEN "update" ELSE stage,
          ![p].turns = IF stage = "end" THEN 0
                       ELSE extractTurns(objs[e].headers)]
     /\ UNCHANGED <<log, tasks, ncalls, nregs, captured>>
     /\ UNCHANGED schemaVars
     /\ UNCHANGED frameVars
     /\ UNCHANGED engineVars
     /\ UNCHANGED codecVars
     /\ UNCHANGED auxVars

\* processEntry resumes after `await extractPayload(entry.responseRaw, ...)`
\* and returns: the addLog that awaits it is queued
ProcessResponse(p) ==
  LET e == calls[p].entry
  IN /\ calls[p].pc = "resp"
     /\ Resumes(<<p, 0>>, calls[p].turns)
     /\ ready' = Append(Rest(<<p, 0>>), <<p, 0>>)
     /\ flushing' = FALSE
     /\ objs' = [objs EXCEPT ![e] = withResponse(objs[e], calls[p].methodInfo)]
     /\ calls' = [calls EXCEPT ![p].pc = "update", ![p].turns = 0]
     /\ UNCHANGED <<log, tasks, ncalls, nregs, captured, owed>>
     /\ UNCHANGED schemaVars
     /\ UNCHANGED frameVars
     /\ UNCHANGED engineVars
     /\ UNCHANGED codecVars
     /\ UNCHANGED auxVars

\* reprocessAllLogs up to `await Promise.all(...)`: processEntry(entry, true)
\* is started on every record of the snapshot, each up to its first await
reprocessTasks(heap, list, map) ==
  [i \in DOMAIN list |->
     LET stage == nextStage(heap[list[i]], "start", TRUE)
     IN [obj |-> list[i],
         methodInfo |-> findMethod(map, heap[list[i]].path),
         pc |-> IF stage = "end" THEN "settled" ELSE stage,
         turns |-> IF stage = "end" THEN 0
                   ELSE extractTurns(heap[list[i]].headers)]]

\* what reprocessAllLogs queues before it awaits: the extractPayload awaits
\* reached while mapping over the snapshot, then Promise.all's reactions to
\* the processEntry promises that have already settled
reprocessQueued(p, ts) ==
  LET items == [i \in DOMAIN ts |-> <<p, i>>]
      Extracting(item) == ts[item[2]].pc # "settled" /\ ts[item[2]].turns > 0
      HasSettled(item) == ts[item[2]].pc = "settled"
  IN SelectSeq(items, Extracting) \o SelectSeq(items, HasSettled)

\* addLog resumes after `await processEntry(entry)`: log.update, then
\* reprocessAllLogs() when tryAutoReflection returned true
LogUpdate(p) ==
  LET e == calls[p].entry
      idx == existingIdx(objs, log, objs[e])
      heap == IF idx # 0
                THEN Append(objs, mergeEntry(objs[log[idx]], objs[e]))
                ELSE objs
      list == IF idx # 0
                THEN [log EXCEPT ![idx] = Len(objs) + 1]
                ELSE Append(log, e)
      ts == reprocessTasks(heap, list, serviceMap)
  IN /\ calls[p].pc = "update"
     /\ IsNext(<<p, 0>>)
     /\ flushing' = FALSE
     /\ objs' = heap
     /\ log' = list
     /\ IF calls[p].isNew
          THEN /\ tasks' = [tasks EXCEPT ![p] = ts]
               /\ calls' = [calls EXCEPT ![p].pc = "reproc"]
               /\ ready' = Tail(ready) \o reprocessQueued(p, ts)
          ELSE /\ tasks' = tasks
               /\ calls' = [calls EXCEPT ![p].pc = "done"]
               /\ ready' = Tail(ready)
     /\ UNCHANGED <<ncalls, nregs, captured, owed>>
     /\ UNCHANGED schemaVars
     /\ UNCHANGED frameVars
     /\ UNCHANGED engineVars
     /\ UNCHANGED codecVars
     /\ UNCHANGED auxVars

\* the extractPayload of one processEntry(entry, true) resumes after
\* `await extractGrpcFrames(buffer)` and returns
ReprocessTurn(p, i) ==
  /\ calls[p].pc = "reproc"
  /\ i \in DOMAIN tasks[p]
  /\ tasks[p][i].pc \in {"req", "resp"}
  /\ tasks[p][i].turns > 1
  /\ IsNext(<<p, i>>)
  /\ ready' = Append(Tail(ready), <<p, i>>)
  /\ flushing' = FALSE
  /\ tasks' = [tasks EXCEPT ![p][i].turns = tasks[p][i].turns - 1]
  /\ UNCHANGED <<objs, log, calls, ncalls, nregs, captured, owed>>
  /\ UNCHANGED schemaVars
  /\ UNCHANGED frameVars
  /\ UNCHANGED engineVars
  /\ UNCHANGED codecVars
  /\ UNCHANGED auxVars

\* one processEntry(entry, true) of reprocessAllLogs resumes after an await;
\* when it returns, Promise.all's reaction to it is queued
ReprocessStep(p, i) ==
  LET t == tasks[p][i]
      x == t.obj
      decoded == IF t.pc = "req" THEN withRequest(objs[x], t.methodInfo)
                 ELSE withResponse(objs[x], t.methodInfo)
      stage == IF t.pc = "req" THEN nextStage(decoded, "req", TRUE) ELSE "end"
  IN /\ calls[p].pc = "reproc"
     /\ i \in DOMAIN tasks[p]
     /\ t.pc \in {"req", "resp"}
     /\ Resumes(<<p, i>>, t.turns)
     /\ ready' = IF stage = "end" THEN Append(Rest(<<p, i>>), <<p, i>>)
                 ELSE awaitExtract(Rest(<<p, i>>), <<p, i>>, objs[x].headers)
     /\ flushing' = FALSE
     /\ objs' = [objs EXCEPT ![x] = decoded]
     /\ owed' = IF t.pc = "req" THEN owed \ Settled(objs[x], t.methodInfo)
                ELSE owed
     /\ tasks' = [tasks EXCEPT
          ![p][i].pc = IF stage = "end" THEN "settled" ELSE stage,
          ![p][i].turns = IF stage = "end" THEN 0
                          ELSE extractTurns(objs[x].headers)]
     /\ UNCHANGED <<log, calls, ncalls, nregs, captured>>
     /\ UNCHANGED schemaVars
     /\ UNCHANGED frameVars
     /\ UNCHANGED engineVars
     /\ UNCHANGED codecVars
     /\ UNCHANGED auxVars

\* Promise.all's reaction to one settled processEntry promise runs; the
\* last one settles Promise.all and queues the reprocessAllLogs awaiting it
ReprocessSettle(p, i) ==
  LET last == \A j \in DOMAIN tasks[p] : j # i => tasks[p][j].pc = "end"
  IN /\ calls[p].pc = "reproc"
     /\ i \in DOMAIN tasks[p]
     /\ tasks[p][i].pc = "settled"
     /\ IsNext(<<p, i>>)
     /\ ready' = IF last THEN Append(Tail(ready), <<p, 0>>) ELSE Tail(ready)
     /\ flushing' = FALSE
     /\ tasks' = [tasks EXCEPT ![p][i].pc = "end"]
     /\ UNCHANGED <<objs, log, calls, ncalls, nregs, captured, owed>>
     /\ UNCHANGED schemaVars
     /\ UNCHANGED frameVars
     /\ UNCHANGED engineVars
     /\ UNCHANGED codecVars
     /\ UNCHANGED auxVars

\* reprocessAllLogs resumes after Promise.all: log.set([...currentLogs])
ReprocessFinish(p) ==
  /\ calls[p].pc = "reproc"
  /\ IsNext(<<p, 0>>)
  /\ ready' = Tail(ready)
  /\ flushing' = FALSE
  /\ log' = [i \in DOMAIN tasks[p] |-> tasks[p][i].obj]
  /\ tasks' = [tasks EXCEPT ![p] = <<>>]
  /\ calls' = [calls EXCEPT ![p].pc = "done"]
  /\ UNCHANGED <<objs, ncalls, nregs, captured, owed>>
  /\ UNCHANGED schemaVars
  /\ UNCHANGED frameVars
  /\ UNCHANGED engineVars
  /\ UNCHANGED codecVars
  /\ UNCHANGED auxVars

\* registerSchema(data, source) from the panel's message handler, a task of
\* its own; auto is source.startsWith('auto-detect')
RegisterData(paths, auto, official) ==
  /\ nregs < MaxRegs
  /\ TaskBoundary
  /\ flushing' = FALSE
  /\ nregs' = nregs + 1
  /\ serviceMap' = registerSchema(serviceMap, paths)
  /\ localProtoRegistered' = (localProtoRegistered \/ auto)
  /\ registry' = registryAfter(registry, schemaData(paths, official))
  /\ schemas' = schemasAfter(schemas, schemaData(paths, official).messages)
  /\ services' = servicesAfter(services, schemaData(paths, official).services)
  /\ fileSet' = looseAfter(fileSet, schemaData(paths, official))
  /\ UNCHANGED nclears
  /\ UNCHANGED <<reflectedServers, reflectionPromises, fetches, reflectionStatus>>
  /\ UNCHANGED <<objs, log, calls, tasks, ncalls, captured, owed, ready>>
  /\ UNCHANGED frameVars
  /\ UNCHANGED codecVars
  /\ UNCHANGED toolVars

\* the panel's message handler: the schema of a page message is plain data
RegisterSchema(paths, auto) == RegisterData(paths, auto, FALSE)

\* steps of the panel's own code: continuations the event loop always runs
Continue ==
  \/ \E p \in DOMAIN calls : OwnerResume(p)
  \/ \E p \in DOMAIN calls : WaiterResume(p)
  \/ \E p \in DOMAIN calls : ProcessStart(p)
  \/ \E p \in DOMAIN calls : ExtractTurn(p)
  \/ \E p \in DOMAIN calls : ProcessRequest(p)
  \/ \E p \in DOMAIN calls : ProcessResponse(p)
  \/ \E p \in DOMAIN calls : LogUpdate(p)
  \/ \E p \in DOMAIN calls : \E i \in DOMAIN tasks[p] : ReprocessTurn(p, i)
  \/ \E p \in DOMAIN calls : \E i \in DOMAIN tasks[p] : ReprocessStep(p, i)
  \/ \E p \in DOMAIN calls : \E i \in DOMAIN tasks[p] : ReprocessSettle(p, i)
  \/ \E p \in DOMAIN calls : ReprocessFinish(p)

Next ==
  \/ \E p \in Calls : \E id \in Ids : \E reqRaw \in {0, p} : \E respRaw \in {0, p} :
       \E headers \in Headers : AddLogStart(p, id, reqRaw, respRaw, headers)
  \/ \E k \in DOMAIN fetches : \E result \in FetchResults : FetchComplete(k, result)
  \/ \E paths \in SchemaChoices \ {{}} : \E auto \in BOOLEAN :
       RegisterSchema(paths, auto)
  \/ Continue

Spec == Init /\ [][Next]_vars

\* Three overlapping addLog calls whose entries all carry a gzip request
\* body, with no registerSchema message: the runs in which a
\* reprocessAllLogs is still awaiting its decodes while later records arrive
ReprocessCalls == 1..MaxReprocessCalls

ReprocessInit == StoreInit(ReprocessCalls) /\ FrameIdle /\ CodecIdle /\ ToolIdle

ReprocessNext ==
  \/ \E p \in ReprocessCalls : \E id \in Ids : \E headers \in {"gzip", "plain"} :
       AddLogStart(p, id, p, 0, headers)
  \/ \E k \in DOMAIN fetches : \E result \in FetchResults : FetchComplete(k, result)
  \/ \E p \in DOMAIN calls : OwnerResume(p)
  \/ \E p \in DOMAIN calls : WaiterResume(p)
  \/ \E p \in DOMAIN calls : ProcessStart(p)
  \/ \E p \in DOMAIN calls : ProcessRequest(p)
  \/ \E p \in DOMAIN calls : LogUpdate(p)
  \/ \E p \in DOMAIN calls : \E i \in DOMAIN tasks[p] : ReprocessStep(p, i)
  \/ \E p \in DOMAIN calls : \E i \in DOMAIN tasks[p] : ReprocessSettle(p, i)
  \/ \E p \in DOMAIN calls : ReprocessFinish(p)

ReprocessSpec == ReprocessInit /\ [][ReprocessNext]_vars

\* the event loop runs every continuation that is ready and every
\* decompression finishes; nothing makes a server answer or a new call arrive
FairSpec == Init /\ [][Next]_vars /\ WF_vars(Continue)

\* ------------------------------------------------------- grpc-web-transport
\* the byte values payloads are built from
ByteChoices == {0, 1, 128, 255}

SeqsUpTo(S, n) == UNION {[1..k -> S] : k \in 0..n}

Bodies == SeqsUpTo(ByteChoices, MaxPayloadLen)

\* data[i] of a Uint8Array in a bitwise expression: undefined counts as 0
ByteAt(data, i) == IF i >= 0 /\ i < Len(data) THEN data[i + 1] ELSE 0

\* b << 24 as JavaScript computes it: a signed 32-bit integer, negative
\* when bit 7 of the byte is set
ShiftLeft24(b) == (IF b >= 128 THEN b - 256 ELSE b) * 16777216

frameRequestLittleEndian(body) ==
  <<0, Len(body) % 256, (Len(body) \div 256) % 256,
    (Len(body) \div 65536) % 256, (Len(body) \div 16777216) % 256>> \o body

\* frameRequest: flag 0, the length in 4 bytes big-endian, then the body
frameRequest(body) ==
  <<0, (Len(body) \div 16777216) % 256, (Len(body) \div 65536) % 256,
    (Len(body) \div 256) % 256, Len(body) % 256>> \o body

\* unframeResponse: the length field of the frame header at pos
frameLength(data, at) ==
  ShiftLeft24(ByteAt(data, at + 1)) + ByteAt(data, at + 2) * 65536
    + ByteAt(data, at + 3) * 256 + ByteAt(data, at + 4)

\* unframeResponse: (flags & 0x80) === 0 && (flags & 0x01) === 0
isDataFrame(flags) == (flags \div 128) % 2 = 0 /\ flags % 2 = 0

\* Uint8Array.slice(start, end): a negative index counts from the end, and
\* both are clamped to 0..length
slice(data, start, end) ==
  LET Relative(k) == IF k < 0
                       THEN (IF Len(data) + k < 0 THEN 0 ELSE Len(data) + k)
                       ELSE (IF k > Len(data) THEN Len(data) ELSE k)
  IN SubSeq(data, Relative(start) + 1, Relative(end))

FramingInit ==
  /\ StoreInit(Calls)
  /\ CodecIdle
  /\ ToolIdle
  /\ payloads \in SeqsUpTo(Bodies, MaxFrames)
  /\ nframed = 0
  /\ wire = <<>>
  /\ pos = 0
  /\ unframed = <<>>
  /\ returned = NoResult
  /\ fpc = "frame"
  /\ frameFlags = <<>>
  /\ trailing = <<>>
  /\ ExtractIdle

\* frameRequest(body) for the next payload, appended to the response body
FrameRequest ==
  /\ fpc = "frame"
  /\ nframed < Len(payloads)
  /\ wire' = wire \o frameRequest(payloads[nframed + 1])
  /\ nframed' = nframed + 1
  /\ frameFlags' = Append(frameFlags, 0)
  /\ UNCHANGED <<payloads, pos, unframed, returned, fpc, trailing>>
  /\ UNCHANGED extractVars
  /\ UNCHANGED storeVars
  /\ UNCHANGED engineVars
  /\ UNCHANGED codecVars
  /\ UNCHANGED auxVars

\* unframeResponse(data) up to its loop: `if (data.length < 5) return null`
UnframeEnter ==
  /\ fpc = "frame"
  /\ nframed = Len(payloads)
  /\ IF Len(wire) < 5
       THEN /\ fpc' = "done"
            /\ returned' = [isNull |-> TRUE, payloads |-> <<>>]
       ELSE /\ fpc' = "loop"
            /\ returned' = returned
  /\ UNCHANGED <<payloads, nframed, wire, pos, unframed>>
  /\ UNCHANGED <<frameFlags, trailing>>
  /\ UNCHANGED extractVars
  /\ UNCHANGED storeVars
  /\ UNCHANGED engineVars
  /\ UNCHANGED codecVars
  /\ UNCHANGED auxVars

\* the chunks payloads and messageChunks can hold: more than any body here has frames,
\* and far fewer than the engine's memory allows
MaxChunks == MaxFrames + 3

\* UnframeFrame without `if (end > data.length) break`
UnframeFrameUnchecked ==
  LET flags == ByteAt(wire, pos)
      length == frameLength(wire, pos)
      start == pos + 5
      end == start + length
  IN /\ fpc = "loop"
     /\ pos + 5 <= Len(wire)
     /\ Len(unframed) < MaxChunks
     /\ unframed' = IF isDataFrame(flags)
                      THEN Append(unframed, slice(wire, start, end))
                      ELSE unframed
     /\ pos' = end
     /\ fpc' = fpc
     /\ UNCHANGED <<payloads, nframed, wire, returned>>
     /\ UNCHANGED <<frameFlags, trailing>>
     /\ UNCHANGED extractVars
     /\ UNCHANGED storeVars
     /\ UNCHANGED engineVars
     /\ UNCHANGED codecVars
     /\ UNCHANGED auxVars

\* one iteration of `while (pos + 5 <= data.length)`
UnframeFrame ==
  LET flags == ByteAt(wire, pos)
      length == frameLength(wire, pos)
      start == pos + 5
      end == start + length
  IN /\ fpc = "loop"
     /\ pos + 5 <= Len(wire)
     /\ Len(unframed) < MaxChunks
     /\ IF end > Len(wire)
          THEN /\ fpc' = "exit"
               /\ UNCHANGED <<pos, unframed>>
          ELSE /\ unframed' = IF isDataFrame(flags)
                                THEN Append(unframed, slice(wire, start, end))
                                ELSE unframed
               /\ pos' = end
               /\ fpc' = fpc
     /\ UNCHANGED <<payloads, nframed, wire, returned>>
     /\ UNCHANGED <<frameFlags, trailing>>
     /\ UNCHANGED extractVars
     /\ UNCHANGED storeVars
     /\ UNCHANGED engineVars
     /\ UNCHANGED codecVars
     /\ UNCHANGED auxVars

\* `return payloads.length > 0 ? payloads : null`
UnframeReturn ==
  /\ \/ fpc = "exit"
     \/ fpc = "loop" /\ ~(pos + 5 <= Len(wire))
  /\ fpc' = "done"
  /\ returned' = IF Len(unframed) > 0
                 THEN [isNull |-> FALSE, payloads |-> unframed]
                 ELSE [isNull |-> TRUE, payloads |-> <<>>]
  /\ UNCHANGED <<payloads, nframed, wire, pos, unframed>>
  /\ UNCHANGED <<frameFlags, trailing>>
  /\ UNCHANGED extractVars
  /\ UNCHANGED storeVars
  /\ UNCHANGED engineVars
  /\ UNCHANGED codecVars
  /\ UNCHANGED auxVars

FramingNext == FrameRequest \/ UnframeEnter \/ UnframeFrame \/ UnframeReturn

FramingSpec == FramingInit /\ [][FramingNext]_vars

\* ------------------------------------------------- frames read off the wire
unframeVars == <<payloads, nframed, wire, pos, unframed, returned, fpc,
                 frameFlags, trailing>>

\* the flags byte of a received frame: bit 0 and bit 7, clear or set
FlagChoices == {0, 1, 128, 129}

WireBytes == {1, 255}

WireBodies == SeqsUpTo(WireBytes, MaxPayloadLen)

\* a frame as a server writes it: the flags byte, then length and body
frameBytes(flags, body) == <<flags>> \o Tail(frameRequest(body))

RECURSIVE Concat(_)
Concat(seqs) == IF seqs = <<>> THEN <<>> ELSE Head(seqs) \o Concat(Tail(seqs))

wireOf(flagSeq, bodies) ==
  Concat([i \in DOMAIN bodies |-> frameBytes(flagSeq[i], bodies[i])])

\* what can follow the complete frames of a body: nothing, fewer than 5
\* bytes, or a header whose length runs past the end of the buffer
TruncatedFrames ==
  {<<f, 0, 0, 0, n>> \o b : f \in {0, 128}, n \in {MaxPayloadLen + 1},
                            b \in WireBodies}

Tails == {<<>>, <<1>>, <<0, 0, 0, 1>>} \cup TruncatedFrames

\* decompressGzip(buffer): the content of a gzip member, here its magic
\* bytes 1f 8b followed by the stored content; for anything else
\* reader.read() rejects and the catch returns the buffer itself
decompressGzip(buf) ==
  IF Len(buf) >= 2 /\ buf[1] = 31 /\ buf[2] = 139
    THEN SubSeq(buf, 3, Len(buf)) ELSE buf

inputVars == <<rawData, isBase64, contentType, grpcEncoding, connectEncoding,
               payload, stages>>

\* the content types a captured body can carry
ContentTypes == {"", "application/json", "application/grpc",
                 "application/grpc-web+proto", "application/grpc-web-text",
                 "application/connect+proto"}

\* contentType.includes(token) for the tokens extractPayload looks for
includes(ct, token) ==
  CASE token = "grpc-web-text" -> ct = "application/grpc-web-text"
    [] token = "grpc" -> ct \in {"application/grpc", "application/grpc-web+proto",
                                 "application/grpc-web-text"}
    [] token = "connect" -> ct = "application/connect+proto"
    [] OTHER -> FALSE

\* one iteration of extractGrpcFrames' `while (pos + 5 <= buffer.length)`.
\* A negative length moves pos before the buffer; while pos <= -5 every
\* header byte reads undefined, the length is 0 and the iteration adds an
\* empty chunk and 5 to pos: those iterations are taken with this one
ExtractFrame ==
  LET flags == ByteAt(buffer, xpos)
      length == frameLength(buffer, xpos)
      start == xpos + 5
      end == start + length
      isCompressed == flags % 2 = 1
      isData == (flags \div 128) % 2 = 0
      chunk == slice(buffer, start, end)
  IN /\ xpc = "loop"
     /\ xpos + 5 <= Len(buffer)
     /\ Len(chunks) < MaxChunks
     /\ hasFraming' = TRUE
     /\ IF end > Len(buffer)
          THEN /\ xpc' = "exit"
               /\ UNCHANGED <<xpos, chunks>>
          ELSE /\ chunks' = IF isData
                              THEN Append(chunks,
                                     IF isCompressed /\ length > 0
                                       THEN decompressGzip(chunk) ELSE chunk)
                              ELSE chunks
               /\ xpos' = IF end <= -5 THEN 0 - ((0 - end) % 5) ELSE end
               /\ xpc' = xpc
     /\ UNCHANGED <<buffer, extracted>>
     /\ UNCHANGED inputVars
     /\ UNCHANGED unframeVars
     /\ UNCHANGED storeVars
     /\ UNCHANGED engineVars
     /\ UNCHANGED codecVars
     /\ UNCHANGED auxVars

\* extractGrpcFrames returns: null without framing, else the chunks combined
ExtractReturn ==
  /\ \/ xpc = "exit"
     \/ xpc = "loop" /\ ~(xpos + 5 <= Len(buffer))
  /\ xpc' = "done"
  /\ extracted' = IF ~hasFraming THEN NoBuffer
                  ELSE [isNull |-> FALSE, bytes |-> Concat(chunks)]
  /\ UNCHANGED <<buffer, xpos, chunks, hasFraming>>
  /\ UNCHANGED inputVars
  /\ UNCHANGED unframeVars
  /\ UNCHANGED storeVars
  /\ UNCHANGED engineVars
  /\ UNCHANGED codecVars
  /\ UNCHANGED auxVars

\* ----------------------------------------------------------- extractPayload
\* characters are their codes; a string is a tuple of codes

\* the base64 alphabet: the code of the character for a 6-bit value
b64char(v) ==
  CASE v < 26 -> 65 + v
    [] v >= 26 /\ v < 52 -> 71 + v
    [] v >= 52 /\ v < 62 -> v - 4
    [] v = 62 -> 43
    [] OTHER -> 47

\* the 6-bit value of a character code, -1 outside the alphabet
b64val(c) ==
  CASE c >= 65 /\ c <= 90 -> c - 65
    [] c >= 97 /\ c <= 122 -> c - 71
    [] c >= 48 /\ c <= 57 -> c + 4
    [] c = 43 -> 62
    [] c = 47 -> 63
    [] OTHER -> -1

\* the base64 text of bytes, as DevTools getContent delivers a binary body
RECURSIVE btoa(_)
btoa(b) ==
  IF b = <<>> THEN <<>>
  ELSE IF Len(b) = 1
    THEN <<b64char(b[1] \div 4), b64char((b[1] % 4) * 16), 61, 61>>
  ELSE IF Len(b) = 2
    THEN <<b64char(b[1] \div 4), b64char((b[1] % 4) * 16 + (b[2] \div 16)),
           b64char((b[2] % 16) * 4), 61>>
  ELSE <<b64char(b[1] \div 4), b64char((b[1] % 4) * 16 + (b[2] \div 16)),
         b64char((b[2] % 16) * 4 + (b[3] \div 64)), b64char(b[3] % 64)>>
         \o btoa(SubSeq(b, 4, Len(b)))

RECURSIVE decodeSextets(_)
decodeSextets(v) ==
  IF Len(v) < 2 THEN <<>>
  ELSE IF Len(v) = 2 THEN <<v[1] * 4 + (v[2] \div 16)>>
  ELSE IF Len(v) = 3
    THEN <<v[1] * 4 + (v[2] \div 16), (v[2] % 16) * 16 + (v[3] \div 4)>>
  ELSE <<v[1] * 4 + (v[2] \div 16), (v[2] % 16) * 16 + (v[3] \div 4),
         (v[3] % 4) * 64 + v[4]>> \o decodeSextets(SubSeq(v, 5, Len(v)))

\* atob(text): white space removed, up to two trailing '=' removed when the
\* length is a multiple of 4, then decoded; it throws (ok FALSE) on a length
\* of 4n+1 and on any character outside the alphabet
atob(text) ==
  LET NotSpace(c) == c \notin {9, 10, 12, 13, 32}
      t == SelectSeq(text, NotSpace)
      n == Len(t)
      stripped ==
        IF n > 0 /\ n % 4 = 0 /\ t[n] = 61
          THEN IF t[n - 1] = 61 THEN SubSeq(t, 1, n - 2) ELSE SubSeq(t, 1, n - 1)
          ELSE t
  IN IF \/ Len(stripped) % 4 = 1
        \/ \E i \in DOMAIN stripped : b64val(stripped[i]) < 0
       THEN [ok |-> FALSE, bytes |-> <<>>]
       ELSE [ok |-> TRUE,
             bytes |-> decodeSextets([i \in DOMAIN stripped |-> b64val(stripped[i])])]

\* new TextEncoder().encode(text): UTF-8, for codes below 2048
RECURSIVE encodeUtf8(_)
encodeUtf8(text) ==
  IF text = <<>> THEN <<>>
  ELSE (IF Head(text) < 128 THEN <<Head(text)>>
        ELSE <<192 + (Head(text) \div 64), 128 + (Head(text) % 64)>>)
       \o encodeUtf8(Tail(text))

\* decodeInitialData(data, isBase64); data is [text, codes]
decodeInitialData(raw, b64) ==
  IF raw.text
    THEN IF b64 THEN atob(raw.codes)
         ELSE [ok |-> TRUE, bytes |-> encodeUtf8(raw.codes)]
    ELSE [ok |-> TRUE, bytes |-> raw.codes]

\* handleGrpcWebText(buffer)
handleGrpcWebText(buf) ==
  LET checkLen == IF Len(buf) < 64 THEN Len(buf) ELSE 64
      nonPrintable == Cardinality({i \in 1..checkLen :
                        buf[i] < 32 /\ buf[i] \notin {10, 13, 9}})
      isBinary == 10 * nonPrintable > checkLen \/ buf[1] = 0 \/ buf[1] = 1
      InAlphabet(c) == b64val(c) >= 0 \/ c = 61
      NotPad(c) == c # 61
      text == SelectSeq(buf, InAlphabet)
      clean == SelectSeq(text, NotPad)
      cleanText == clean \o [i \in 1..((4 - (Len(clean) % 4)) % 4) |-> 61]
      binStr == atob(cleanText)
  IN IF Len(buf) = 0 THEN buf
     ELSE IF isBinary THEN buf
     ELSE IF Len(text) <= 4 THEN buf
     ELSE IF binStr.ok THEN binStr.bytes
     ELSE buf

encodingEither(grpcEnc, connectEnc) ==
  IF grpcEnc = "gzip" \/ connectEnc = "gzip" THEN "gzip" ELSE ""

\* headers['grpc-encoding'] || headers['connect-content-encoding'] || ''
encodingOf(grpcEnc, connectEnc) ==
  IF grpcEnc # "" THEN grpcEnc ELSE connectEnc

\* extractPayload: step 1, the initial conversion to a Uint8Array; atob
\* throwing rejects the promise
PayloadNormalize ==
  LET initial == decodeInitialData(rawData, isBase64)
  IN /\ xpc = "initial"
     /\ buffer' = initial.bytes
     /\ xpc' = IF initial.ok THEN "text" ELSE "thrown"
     /\ stages' = Append(stages, "normalize")
     /\ UNCHANGED <<xpos, chunks, hasFraming, extracted, payload>>
     /\ UNCHANGED <<rawData, isBase64, contentType, grpcEncoding, connectEncoding>>
     /\ UNCHANGED unframeVars
     /\ UNCHANGED storeVars
     /\ UNCHANGED engineVars
     /\ UNCHANGED codecVars
     /\ UNCHANGED auxVars

\* extractPayload: step 2, grpc-web-text
PayloadText ==
  /\ xpc = "text"
  /\ xpc' = "gzip"
  /\ IF includes(contentType, "grpc-web-text")
       THEN /\ buffer' = handleGrpcWebText(buffer)
            /\ stages' = Append(stages, "text")
       ELSE UNCHANGED <<buffer, stages>>
  /\ UNCHANGED <<xpos, chunks, hasFraming, extracted, payload>>
  /\ UNCHANGED <<rawData, isBase64, contentType, grpcEncoding, connectEncoding>>
  /\ UNCHANGED unframeVars
  /\ UNCHANGED storeVars
  /\ UNCHANGED engineVars
  /\ UNCHANGED codecVars
  /\ UNCHANGED auxVars

\* extractPayload: step 3, gzip
PayloadGzip ==
  /\ xpc = "gzip"
  /\ xpc' = "frames"
  /\ IF encodingOf(grpcEncoding, connectEncoding) = "gzip"
       THEN /\ buffer' = decompressGzip(buffer)
            /\ stages' = Append(stages, "gzip")
       ELSE UNCHANGED <<buffer, stages>>
  /\ UNCHANGED <<xpos, chunks, hasFraming, extracted, payload>>
  /\ UNCHANGED <<rawData, isBase64, contentType, grpcEncoding, connectEncoding>>
  /\ UNCHANGED unframeVars
  /\ UNCHANGED storeVars
  /\ UNCHANGED engineVars
  /\ UNCHANGED codecVars
  /\ UNCHANGED auxVars

\* extractPayload: step 4, extractGrpcFrames is called, or buffer returned
PayloadFrames ==
  /\ xpc = "frames"
  /\ IF includes(contentType, "grpc") \/ includes(contentType, "connect")
       THEN /\ xpc' = "loop"
            /\ stages' = Append(stages, "frames")
            /\ payload' = payload
       ELSE /\ xpc' = "returned"
            /\ stages' = stages
            /\ payload' = [isNull |-> FALSE, bytes |-> buffer]
  /\ UNCHANGED <<buffer, xpos, chunks, hasFraming, extracted>>
  /\ UNCHANGED <<rawData, isBase64, contentType, grpcEncoding, connectEncoding>>
  /\ UNCHANGED unframeVars
  /\ UNCHANGED storeVars
  /\ UNCHANGED engineVars
  /\ UNCHANGED codecVars
  /\ UNCHANGED auxVars

\* extractPayload after `await extractGrpcFrames(buffer)`:
\* `if (extracted) return extracted;` and otherwise `return buffer`
PayloadReturn ==
  /\ xpc = "done"
  /\ xpc' = "returned"
  /\ payload' = IF ~extracted.isNull THEN extracted
                ELSE [isNull |-> FALSE, bytes |-> buffer]
  /\ UNCHANGED <<buffer, xpos, chunks, hasFraming, extracted>>
  /\ UNCHANGED <<rawData, isBase64, contentType, grpcEncoding, connectEncoding,
                 stages>>
  /\ UNCHANGED unframeVars
  /\ UNCHANGED storeVars
  /\ UNCHANGED engineVars
  /\ UNCHANGED codecVars
  /\ UNCHANGED auxVars

\* a response body of complete frames and a tail, handed to unframeResponse
\* and to extractGrpcFrames
WireInit ==
  /\ StoreInit(Calls)
  /\ CodecIdle
  /\ ToolIdle
  /\ \E n \in 0..MaxFrames :
       /\ payloads \in [1..n -> WireBodies]
       /\ frameFlags \in [1..n -> FlagChoices]
  /\ trailing \in Tails
  /\ wire = wireOf(frameFlags, payloads) \o trailing
  /\ nframed = Len(payloads)
  /\ pos = 0
  /\ unframed = <<>>
  /\ returned = NoResult
  /\ fpc = "frame"
  /\ buffer = wire
  /\ xpc = "loop"
  /\ xpos = 0
  /\ chunks = <<>>
  /\ hasFraming = FALSE
  /\ extracted = NoBuffer
  /\ rawData = [text |-> FALSE, codes |-> wire]
  /\ isBase64 = FALSE
  /\ contentType = "application/grpc-web+proto"
  /\ grpcEncoding = ""
  /\ connectEncoding = ""
  /\ payload = NoBuffer
  /\ stages = <<>>

WireNext ==
  \/ UnframeEnter
  \/ UnframeFrame
  \/ UnframeReturn
  \/ ExtractFrame
  \/ ExtractReturn
  \/ PayloadReturn

WireSpec == WireInit /\ [][WireNext]_vars

\* a protobuf message, and the same as one frame and as a gzip member
Message == <<8, 1>>

Framed == frameRequest(Message)

gzipOf(b) == <<31, 139>> \o b

\* the bodies the capture layer can deliver: binary, text, or base64 text
RawChoices ==
  {[text |-> FALSE, codes |-> b] :
     b \in {<<>>, Message, Framed, gzipOf(Framed), gzipOf(Message),
            btoa(Framed), btoa(gzipOf(Framed))}}
  \cup {[text |-> TRUE, codes |-> c] :
     c \in {btoa(Framed), btoa(btoa(Framed)), btoa(gzipOf(Framed)),
            btoa(Message), <<104, 233>>, <<33, 33>>}}

EncodingChoices == {"", "gzip", "identity"}

\* extractPayload(data, isBase64, headers) for every body and every headers
PayloadInit ==
  /\ StoreInit(Calls)
  /\ CodecIdle
  /\ ToolIdle
  /\ payloads = <<>>
  /\ nframed = 0
  /\ wire = <<>>
  /\ pos = 0
  /\ unframed = <<>>
  /\ returned = NoResult
  /\ fpc = "off"
  /\ frameFlags = <<>>
  /\ trailing = <<>>
  /\ rawData \in RawChoices
  /\ isBase64 \in BOOLEAN
  /\ contentType \in ContentTypes
  /\ grpcEncoding \in EncodingChoices
  /\ connectEncoding \in EncodingChoices
  /\ buffer = <<>>
  /\ xpc = "initial"
  /\ xpos = 0
  /\ chunks = <<>>
  /\ hasFraming = FALSE
  /\ extracted = NoBuffer
  /\ payload = NoBuffer
  /\ stages = <<>>

PayloadNext ==
  \/ PayloadNormalize
  \/ PayloadText
  \/ PayloadGzip
  \/ PayloadFrames
  \/ ExtractFrame
  \/ ExtractReturn
  \/ PayloadReturn

PayloadSpec == PayloadInit /\ [][PayloadNext]_vars

\* ------------------------------------------------------------- processEntry
\* the registered path findMethod answers with for `path`
methodOf(map, path) ==
  IF path \in map THEN path
  ELSE CHOOSE registered \in map : EndsWith(LowerStr(registered), LowerStr(path))

\* what fromBinary(descMessage, buffer) of the official library does with
\* the bytes: a message, or an Error whose message names the cause
FromBinaryOutcomes == {"message", "invalid wire type", "premature EOF"}

\* {}: a decoded object without an _error key
DecodedObject == [kind |-> "object"]

\* an object with an _error key
ErrorObject(text) == [kind |-> "_error", error |-> text]

\* ProtoEngine.decodeMessage(typeName, buffer); typeName <<>> is null and
\* lib is what fromBinary does if it is called
decodeMessageOf(reg, sch, name, buf, lib) ==
  LET schema == findMessage(reg, sch, name)
  IN IF buf = <<>> THEN DecodedObject
     ELSE IF ~schema.isNull /\ schema.desc
       THEN CASE lib = "message" -> DecodedObject
              [] lib = "invalid wire type" -> ErrorObject("corrupted")
              [] OTHER -> ErrorObject("decode failed")
     ELSE IF name = <<>> THEN ErrorObject("no type name")
     ELSE ErrorObject("schema not found")

\* the half of processEntry that runs next on obj: entry.requestRaw &&
\* (forceReprocess || !entry.request), then the same for the response
nextHalf(obj, from, force) ==
  IF from = "start" /\ obj.requestRaw # 0 /\ (force \/ obj.request = NoValue)
    THEN "req"
  ELSE IF obj.responseRaw # 0 /\ (force \/ obj.response = NoValue)
    THEN "resp"
  ELSE "end"

\* processEntry was called with forceReprocess: by reprocessAllLogs, on a
\* record of the log
Forced(e) == \E i \in DOMAIN log : log[i] = e

\* processEntry(entry, forceReprocess) up to its first
\* `await extractPayload(...)`, or to its return with nothing to decode
EntryStart(p, e) ==
  LET half == nextHalf(objs[e], "start", Forced(e))
  IN /\ calls[p].pc = "idle"
     /\ xpc = "entry"
     /\ calls' = [calls EXCEPT
          ![p].entry = e,
          ![p].methodInfo = findMethod(serviceMap, objs[e].path),
          ![p].pc = IF half = "end" THEN "done" ELSE half]
     /\ xpc' = IF half = "end" THEN "processed" ELSE "initial"
     /\ UNCHANGED <<buffer, xpos, chunks, hasFraming, extracted>>
     /\ UNCHANGED inputVars
     /\ UNCHANGED unframeVars
     /\ UNCHANGED schemaVars
     /\ UNCHANGED <<objs, log, tasks, ncalls, nregs, captured, owed, ready,
                    flushing>>
     /\ UNCHANGED engineVars
     /\ UNCHANGED codecVars
     /\ UNCHANGED auxVars

\* extractGrpcFrames in an iteration that leaves pos where it is (a length
\* of -5): the loop cannot end and messageChunks grows until the engine
\* gives up, by a RangeError thrown from push or by aborting out of memory
ExtractExhaust ==
  /\ xpc = "loop"
  /\ xpos + 5 <= Len(buffer)
  /\ xpos + 5 + frameLength(buffer, xpos) = xpos
  /\ Len(chunks) >= MaxChunks
  /\ xpc' \in {"thrown", "aborted"}
  /\ UNCHANGED <<buffer, xpos, chunks, hasFraming, extracted>>
  /\ UNCHANGED inputVars
  /\ UNCHANGED unframeVars
  /\ UNCHANGED storeVars
  /\ UNCHANGED engineVars
  /\ UNCHANGED codecVars
  /\ UNCHANGED auxVars

\* processEntry resumes after `await extractPayload(...)`: the decoded
\* value, or the catch's { _error: e.message }, is assigned, and the other
\* half is started or processEntry returns; stages keeps what went wrong
EntryDecode(p, lib) ==
  LET e == calls[p].entry
      name == IF calls[p].methodInfo
                THEN typeOfPath(methodOf(serviceMap, objs[e].path)) ELSE <<>>
      value == IF xpc = "thrown" THEN ErrorObject("thrown")
               ELSE decodeMessageOf(registry, schemas, name, payload.bytes, lib)
      called == /\ xpc = "returned"
                /\ payload.bytes # <<>>
                /\ findMessage(registry, schemas, name).desc
      cause == IF xpc = "thrown" THEN "extractPayload threw"
               ELSE IF called /\ lib # "message" THEN "fromBinary threw"
               ELSE IF payload.bytes # <<>> /\ ~called THEN "no schema"
               ELSE "none"
      after == IF calls[p].pc = "req"
                 THEN [objs[e] EXCEPT !.request = value]
                 ELSE [objs[e] EXCEPT !.response = value]
      half == nextHalf(after, calls[p].pc, Forced(e))
  IN /\ calls[p].pc \in {"req", "resp"}
     /\ xpc \in {"returned", "thrown"}
     /\ called \/ lib = "message"
     /\ objs' = [objs EXCEPT ![e] = after]
     /\ typeName' = name
     /\ input' = IF xpc = "thrown" THEN <<>> ELSE payload.bytes
     /\ found' = findMessage(registry, schemas, name)
     /\ decodedValue' = value
     /\ calls' = [calls EXCEPT ![p].pc = IF half = "end" THEN "done" ELSE half]
     /\ xpc' = IF half = "end" THEN "processed" ELSE "initial"
     /\ stages' = <<cause>>
     /\ buffer' = <<>>
     /\ xpos' = 0
     /\ chunks' = <<>>
     /\ hasFraming' = FALSE
     /\ extracted' = NoBuffer
     /\ payload' = NoBuffer
     /\ UNCHANGED <<rawData, isBase64, contentType, grpcEncoding, connectEncoding>>
     /\ UNCHANGED unframeVars
     /\ UNCHANGED schemaVars
     /\ UNCHANGED <<log, tasks, ncalls, nregs, captured, owed, ready, flushing>>
     /\ UNCHANGED engineVars
     /\ UNCHANGED auxVars

\* the length bytes ff ff ff fb read as the 32-bit length -5
StuckFrame == <<0, 255, 255, 255, 251>>

EntryBodies == RawChoices \cup {[text |-> FALSE, codes |-> StuckFrame]}

\* an entry of call 1 whose bodies are rawData, and another record
EntryOf(id, reqRaw, respRaw, value) ==
  [id |-> id, origin |-> OriginOfId(id), path |-> PathOfId(id),
   requestRaw |-> reqRaw, responseRaw |-> respRaw,
   request |-> value, response |-> value,
   status |-> "finished", startTime |-> id, call |-> id, headers |-> "plain"]

\* processEntry on entry 1, new or a record of the log, next to record 2
DecodeInit ==
  /\ \E reqRaw \in {0, 1} : \E respRaw \in {0, 1} : \E list \in {<<2>>, <<1, 2>>} :
       StoreWith({1}, <<EntryOf(1, reqRaw, respRaw, NoValue),
                        EntryOf(2, 1, 0, DecodedObject)>>, list)
  /\ CodecIdle
  /\ ToolIdle
  /\ payloads = <<>>
  /\ nframed = 0
  /\ wire = <<>>
  /\ pos = 0
  /\ unframed = <<>>
  /\ returned = NoResult
  /\ fpc = "off"
  /\ frameFlags = <<>>
  /\ trailing = <<>>
  /\ rawData \in EntryBodies
  /\ isBase64 \in BOOLEAN
  /\ contentType \in {"application/json", "application/grpc-web+proto",
                      "application/grpc-web-text"}
  /\ grpcEncoding \in {"", "gzip"}
  /\ connectEncoding = ""
  /\ buffer = <<>>
  /\ xpc = "entry"
  /\ xpos = 0
  /\ chunks = <<>>
  /\ hasFraming = FALSE
  /\ extracted = NoBuffer
  /\ payload = NoBuffer
  /\ stages = <<>>

DecodeNext ==
  \/ \E paths \in SchemaChoices \ {{}} : \E auto, official \in BOOLEAN :
       RegisterData(paths, auto, official)
  \/ EntryStart(1, 1)
  \/ PayloadNormalize
  \/ PayloadText
  \/ PayloadGzip
  \/ PayloadFrames
  \/ ExtractFrame
  \/ ExtractReturn
  \/ ExtractExhaust
  \/ PayloadReturn
  \/ \E lib \in FromBinaryOutcomes : EntryDecode(1, lib)

DecodeSpec == DecodeInit /\ [][DecodeNext]_vars

\* -------------------------------------------------------------- ProtoReader
\* ProtoReader.readVarint at pos `at` (0-based): the 7-bit groups of the
\* BigInt, least significant first, and the position after; at the end of
\* the buffer it returns what it has
RECURSIVE readVarint(_, _)
readVarint(buf, at) ==
  IF at >= Len(buf) THEN [groups |-> <<>>, pos |-> at]
  ELSE LET b == buf[at + 1]
       IN IF b < 128 THEN [groups |-> <<b>>, pos |-> at + 1]
          ELSE LET rest == readVarint(buf, at + 1)
               IN [groups |-> <<b % 128>> \o rest.groups, pos |-> rest.pos]

\* the BigInt the groups stand for: groups that are zero at the top add
\* nothing
RECURSIVE canonical(_)
canonical(groups) ==
  IF groups # <<>> /\ groups[Len(groups)] = 0
    THEN canonical(SubSeq(groups, 1, Len(groups) - 1)) ELSE groups

group(groups, i) == IF i <= Len(groups) THEN groups[i] ELSE 0

\* Number(varint) where it is used as a length: exact below 2^28, and from
\* there on a length past the end of any buffer
lengthOf(groups) ==
  IF Len(canonical(groups)) > 4 THEN 268435456
  ELSE group(groups, 1) + 128 * group(groups, 2) + 16384 * group(groups, 3)
         + 2097152 * group(groups, 4)

\* tag >>> 3 on Number(varint): bits 3..31 of the tag
fieldNumOf(groups) ==
  (group(groups, 1) \div 8) + 16 * group(groups, 2) + 2048 * group(groups, 3)
    + 262144 * group(groups, 4) + 33554432 * (group(groups, 5) % 16)

\* tag & 0x7
wireTypeOf(groups) == group(groups, 1) % 8

\* ProtoReader.readBytes at pos `at`: buf.slice(pos, pos + len), and
\* pos + len even when that is past the end
readBytes(buf, at) ==
  LET len == readVarint(buf, at)
      n == lengthOf(len.groups)
  IN [bytes |-> slice(buf, len.pos, len.pos + n), pos |-> len.pos + n]

\* new TextDecoder("utf-8", { fatal: true }).decode(raw) does not throw:
\* raw is well-formed UTF-8
RECURSIVE validUtf8(_)
validUtf8(raw) ==
  LET b == raw[1]
      Cont(i, lo, hi) == i <= Len(raw) /\ raw[i] >= lo /\ raw[i] <= hi
      Two(lo, hi) == Cont(2, lo, hi) /\ validUtf8(SubSeq(raw, 3, Len(raw)))
      Three(lo, hi) == /\ Cont(2, lo, hi) /\ Cont(3, 128, 191)
                       /\ validUtf8(SubSeq(raw, 4, Len(raw)))
      Four(lo, hi) == /\ Cont(2, lo, hi) /\ Cont(3, 128, 191) /\ Cont(4, 128, 191)
                      /\ validUtf8(SubSeq(raw, 5, Len(raw)))
  IN IF raw = <<>> THEN TRUE
     ELSE IF b < 128 THEN validUtf8(Tail(raw))
     ELSE IF b >= 194 /\ b <= 223 THEN Two(128, 191)
     ELSE IF b = 224 THEN Three(160, 191)
     ELSE IF b = 237 THEN Three(128, 159)
     ELSE IF b >= 225 /\ b <= 239 THEN Three(128, 191)
     ELSE IF b = 240 THEN Four(144, 191)
     ELSE IF b >= 241 /\ b <= 243 THEN Four(128, 191)
     ELSE IF b = 244 THEN Four(128, 143)
     ELSE FALSE

\* b.toString(16)
hexDigits(b) ==
  LET digit(d) == <<"0", "1", "2", "3", "4", "5", "6", "7", "8", "9",
                    "a", "b", "c", "d", "e", "f">>[d + 1]
  IN IF b < 16 THEN <<digit(b)>> ELSE <<digit(b \div 16), digit(b % 16)>>

\* s.padStart(2, pad)
padStart2(s, pad) == IF Len(s) < 2 THEN <<pad>> \o s ELSE s

\* Array.from(raw).map(b => b.toString(16).padStart(2, 'x')).join(' ')
hexText(raw) == [i \in DOMAIN raw |-> padStart2(hexDigits(raw[i]), "x")]

\* ------------------------------------------------------ ProtoEngine._decode
\* the result object: its keys in insertion order, each with its value
keyIndex(fields, key) == FirstIndex({i \in DOMAIN fields : fields[i].key = key})

\* `result[fieldName] = value`, or the "Handle Repeated fields" branch when
\* the key is already there
assignField(fields, key, value) ==
  LET at == keyIndex(fields, key)
      old == fields[at].value
      asArray == IF old.kind = "array" THEN old.items ELSE <<old>>
      pushed == IF value.kind = "array" THEN asArray \o value.items
                ELSE Append(asArray, value)
  IN IF at = 0 THEN Append(fields, [key |-> key, value |-> value])
     ELSE [fields EXCEPT ![at].value = [kind |-> "array", items |-> pushed]]

\* the field definitions of a schema, as fieldMap.get(fieldNum)
fieldDefOf(schema, fieldNum) ==
  LET at == {i \in DOMAIN schema : schema[i].number = fieldNum}
  IN IF at = {} THEN [isNull |-> TRUE]
     ELSE schema[CHOOSE i \in at : \A j \in at : j <= i]

\* the while loop of a packed field: readFieldValue of an INT32 until the
\* end of packData
RECURSIVE packedValues(_, _)
packedValues(packData, at) ==
  IF at >= Len(packData) THEN <<>>
  ELSE LET v == readVarint(packData, at)
       IN <<[kind |-> "varint", groups |-> canonical(v.groups)]>>
            \o packedValues(packData, v.pos)

\* ProtoReader.readField(wireType) for the wire types other than 2: the
\* value, a varint as its decimal text, and the position after
readField(buf, at, wireType) ==
  CASE wireType = 0 ->
         LET v == readVarint(buf, at)
         IN [value |-> [kind |-> "decimal", groups |-> canonical(v.groups)],
             pos |-> v.pos]
    [] wireType = 1 ->
         IF at + 8 > Len(buf)
           THEN [value |-> [kind |-> "fixed", bytes |-> [i \in 1..8 |-> 0]],
                 pos |-> at]
           ELSE [value |-> [kind |-> "fixed", bytes |-> slice(buf, at, at + 8)],
                 pos |-> at + 8]
    [] wireType = 5 ->
         IF at + 4 > Len(buf)
           THEN [value |-> [kind |-> "fixed", bytes |-> [i \in 1..4 |-> 0]],
                 pos |-> at]
           ELSE [value |-> [kind |-> "fixed", bytes |-> slice(buf, at, at + 4)],
                 pos |-> at + 4]
    [] OTHER -> [value |-> [kind |-> "null"], pos |-> at]

\* the nested message is accepted: subReader.pos / subReader.len >= 0.8
consumedAtLeast(consumed, n) == consumed * 5 >= n * 4

\* subReader.pos / subReader.len > 0.8
consumedMost(consumed, n) == consumed * 5 > n * 4

\* ProtoEngine._decode(schema, reader) from position `at` with `fields`
\* decoded so far: the result's fields and the reader's position at the end.
\* schema is the sequence of field definitions, <<>> without a schema; its
\* fields are INT32 (5) or MESSAGE (11) of the same type
RECURSIVE decode(_, _, _, _)
decode(schema, buf, at, fields) ==
  IF at >= Len(buf) THEN [fields |-> fields, pos |-> at]
  ELSE
    LET tag == readVarint(buf, at)
        fieldNum == fieldNumOf(tag.groups)
        wireType == wireTypeOf(tag.groups)
        fieldDef == fieldDefOf(schema, fieldNum)
        key == IF fieldDef.isNull THEN [name |-> "field_", number |-> fieldNum]
               ELSE [name |-> fieldDef.name, number |-> 0]
        raw == readBytes(buf, tag.pos)
        sub == decode(<<>>, raw.bytes, 0, <<>>)
        nested == decode(schema, raw.bytes, 0, <<>>)
        scalar == readVarint(buf, tag.pos)
        read ==
          IF ~fieldDef.isNull
            THEN IF wireType = 2 /\ fieldDef.type = 5
                   THEN [value |-> [kind |-> "array",
                                    items |-> packedValues(raw.bytes, 0)],
                         pos |-> raw.pos]
                 ELSE IF fieldDef.type = 11
                   THEN [value |-> [kind |-> "message", fields |-> nested.fields],
                         pos |-> raw.pos]
                 ELSE [value |-> [kind |-> "varint",
                                  groups |-> canonical(scalar.groups)],
                       pos |-> scalar.pos]
          ELSE IF wireType = 2
            THEN [value |->
                    IF sub.fields # <<>> /\ consumedMost(sub.pos, Len(raw.bytes))
                      THEN [kind |-> "message", fields |-> sub.fields]
                    ELSE IF validUtf8(raw.bytes)
                      THEN [kind |-> "string", bytes |-> raw.bytes]
                    ELSE [kind |-> "hex", text |-> hexText(raw.bytes)],
                  pos |-> raw.pos]
          ELSE readField(buf, tag.pos, wireType)
    IN IF fieldNum = 0 THEN [fields |-> fields, pos |-> tag.pos]
       ELSE decode(schema, buf, read.pos, assignField(fields, key, read.value))

\* ----------------------------------------------------------- ProtobufReader
\* a | b on naturals
RECURSIVE bitOr(_, _)
bitOr(a, b) ==
  IF a = 0 THEN b
  ELSE IF b = 0 THEN a
  ELSE (IF (a % 2) + (b % 2) > 0 THEN 1 ELSE 0) + 2 * bitOr(a \div 2, b \div 2)

\* ProtobufReader.readVarint at pos `at`: the groups read and the position
\* after; it throws at the end of the buffer and on a sixth byte that
\* continues ("Varint too long")
RECURSIVE readVarint32(_, _, _)
readVarint32(buf, at, count) ==
  IF at >= Len(buf) THEN [ok |-> FALSE, groups |-> <<>>, pos |-> at]
  ELSE LET b == buf[at + 1]
       IN IF b < 128 THEN [ok |-> TRUE, groups |-> <<b>>, pos |-> at + 1]
          ELSE IF count = 5 THEN [ok |-> FALSE, groups |-> <<>>, pos |-> at + 1]
          ELSE LET rest == readVarint32(buf, at + 1, count + 1)
               IN [ok |-> rest.ok, groups |-> <<b % 128>> \o rest.groups,
                   pos |-> rest.pos]

\* bits 0..27 of the value: the first four groups, and the sixth group,
\* which `<< shift` with shift = 35 puts at bit 3
low28(groups) ==
  bitOr(group(groups, 1) + 128 * group(groups, 2) + 16384 * group(groups, 3)
          + 2097152 * group(groups, 4),
        8 * group(groups, 6))

\* the value `result >>> 0` as its bits 28..31 and its bits 0..27
uint32Of(groups) == [high |-> group(groups, 5) % 16, low |-> low28(groups)]

\* where the value is a length: past the end of any buffer from 2^28 on
lengthOf32(groups) ==
  IF group(groups, 5) % 16 # 0 THEN 268435456 ELSE low28(groups)

\* tag >>> 3
fieldNumberOf(groups) ==
  (low28(groups) \div 8) + 33554432 * (group(groups, 5) % 16)

\* the UTF-16 length of the decoded string, a leading byte order mark
\* dropped, and how many of its units isValidUtf8String counts as printable
withoutMark(raw) ==
  IF Len(raw) >= 3 /\ SubSeq(raw, 1, 3) = <<239, 187, 191>>
    THEN SubSeq(raw, 4, Len(raw)) ELSE raw

unitsOf(b) == IF b < 128 \/ (b >= 192 /\ b < 240) THEN 1
              ELSE IF b >= 240 THEN 2 ELSE 0

printableUnits(b) ==
  IF b < 128 THEN (IF (b >= 32 /\ b <= 126) \/ b \in {9, 10, 13} THEN 1 ELSE 0)
  ELSE unitsOf(b)

\* str.length
RECURSIVE stringLength(_)
stringLength(raw) ==
  IF raw = <<>> THEN 0 ELSE unitsOf(Head(raw)) + stringLength(Tail(raw))

\* str.split("").filter(...).length
RECURSIVE printableLength(_)
printableLength(raw) ==
  IF raw = <<>> THEN 0 ELSE printableUnits(Head(raw)) + printableLength(Tail(raw))

\* tryDecodeAsString(data) returns the string
tryDecodeAsString(raw) ==
  /\ validUtf8(raw)
  /\ LET text == withoutMark(raw)
     IN \/ stringLength(text) = 0
        \/ printableLength(text) * 5 > stringLength(text) * 4

\* formatBytes(data)
formatBytes(raw) ==
  IF Len(raw) <= 32
    THEN [kind |-> "hex", text |-> [i \in DOMAIN raw |->
                                      padStart2(hexDigits(raw[i]), "0")]]
    ELSE [kind |-> "size", length |-> Len(raw)]

\* `result[fieldNumber] = value`, or the array branch when the key is there
assignNumber(fields, key, value) ==
  LET at == keyIndex(fields, key)
      old == fields[at].value
      asArray == IF old.kind = "array" THEN old.items ELSE <<old>>
  IN IF at = 0 THEN Append(fields, [key |-> key, value |-> value])
     ELSE [fields EXCEPT ![at].value =
             [kind |-> "array", items |-> Append(asArray, value)]]

\* ProtobufReader.readFixed32 at pos `at`
readFixed32(buf, at) ==
  IF at + 4 > Len(buf) THEN [ok |-> FALSE, pos |-> at, value |-> [kind |-> "null"]]
  ELSE [ok |-> TRUE, pos |-> at + 4,
        value |-> [kind |-> "fixed", bytes |-> slice(buf, at, at + 4)]]

\* ProtobufReader.readMessage from position `at` with `fields` read so far:
\* the result's fields and the reader's position at the end
RECURSIVE readMessage(_, _, _)
\* ProtobufReader.readField(wireType) at pos `at`: ok is FALSE when it throws
RECURSIVE readField32(_, _, _)
readField32(buf, at, wireType) ==
  CASE wireType = 0 ->
         LET v == readVarint32(buf, at, 0)
         IN [ok |-> v.ok, pos |-> v.pos,
             value |-> [kind |-> "uint32", bits |-> uint32Of(v.groups)]]
    [] wireType = 1 ->
         LET low == readFixed32(buf, at)
             high == readFixed32(buf, low.pos)
         IN IF ~low.ok THEN low
            ELSE [ok |-> high.ok, pos |-> high.pos,
                  value |-> [kind |-> "fixed", bytes |-> slice(buf, at, at + 8)]]
    [] wireType = 2 ->
         LET len == readVarint32(buf, at, 0)
             n == lengthOf32(len.groups)
             raw == slice(buf, len.pos, len.pos + n)
             sub == readMessage(raw, 0, <<>>)
         IN IF ~len.ok \/ len.pos + n > Len(buf)
              THEN [ok |-> FALSE, pos |-> len.pos, value |-> [kind |-> "null"]]
              ELSE [ok |-> TRUE, pos |-> len.pos + n,
                    value |->
                      IF tryDecodeAsString(raw)
                        THEN [kind |-> "string", bytes |-> raw]
                      ELSE IF Len(raw) >= 2 /\ sub.fields # <<>> /\ sub.pos = Len(raw)
                        THEN [kind |-> "message", fields |-> sub.fields]
                      ELSE formatBytes(raw)]
    [] wireType = 5 -> readFixed32(buf, at)
    [] OTHER -> [ok |-> FALSE, pos |-> at, value |-> [kind |-> "null"]]

readMessage(buf, at, fields) ==
  IF at >= Len(buf) THEN [fields |-> fields, pos |-> at]
  ELSE
    LET tag == readVarint32(buf, at, 0)
        isZero == fieldNumberOf(tag.groups) = 0 /\ wireTypeOf(tag.groups) = 0
        read == readField32(buf, tag.pos, wireTypeOf(tag.groups))
    IN IF ~tag.ok \/ isZero THEN [fields |-> fields, pos |-> tag.pos]
       ELSE IF ~read.ok THEN [fields |-> fields, pos |-> read.pos]
       ELSE readMessage(buf, read.pos,
              assignNumber(fields, fieldNumberOf(tag.groups), read.value))

\* ------------------------------------------- ProtoEngine with _decode (7-216)
\* name.split(".").pop()
RECURSIVE lastSegment(_)
lastSegment(name) ==
  IF \E i \in DOMAIN name : name[i] = 10
    THEN lastSegment(Tail(name)) ELSE name

\* the stages of findMessage: the indices of this.schemas each one matches
exactKeys(sch, clean) == {i \in DOMAIN sch : sch[i].key = clean}

suffixKeys(sch, clean) ==
  {i \in DOMAIN sch : EndsWith(sch[i].key, <<10>> \o clean) \/ sch[i].key = clean}

tailKeys(sch, clean) ==
  {i \in DOMAIN sch : EndsWith(LowerStr(sch[i].key), LowerStr(clean))}

segmentKeys(sch, clean) ==
  IF lastSegment(clean) = <<>> THEN {}
  ELSE {i \in DOMAIN sch : lastSegment(sch[i].key) = lastSegment(clean)}

\* findMessage with the case-insensitive stage tried before the suffix stage
findMessageTailFirst(sch, name) ==
  LET clean == cleanName(name)
  IN IF name = <<>> THEN NoDesc
     ELSE IF exactKeys(sch, clean) # {} THEN sch[FirstIndex(exactKeys(sch, clean))].def
     ELSE IF tailKeys(sch, clean) # {} THEN sch[FirstIndex(tailKeys(sch, clean))].def
     ELSE IF suffixKeys(sch, clean) # {} THEN sch[FirstIndex(suffixKeys(sch, clean))].def
     ELSE IF Cardinality(segmentKeys(sch, clean)) = 1
       THEN sch[FirstIndex(segmentKeys(sch, clean))].def
     ELSE NoDesc

\* findMessage whose last stage takes the first candidate when there are
\* several: `candidates.length >= 1`
findMessageAnySegment(sch, name) ==
  LET clean == cleanName(name)
  IN IF name = <<>> THEN NoDesc
     ELSE IF exactKeys(sch, clean) # {} THEN sch[FirstIndex(exactKeys(sch, clean))].def
     ELSE IF suffixKeys(sch, clean) # {} THEN sch[FirstIndex(suffixKeys(sch, clean))].def
     ELSE IF tailKeys(sch, clean) # {} THEN sch[FirstIndex(tailKeys(sch, clean))].def
     ELSE IF segmentKeys(sch, clean) # {}
       THEN sch[FirstIndex(segmentKeys(sch, clean))].def
     ELSE NoDesc

\* ProtoEngine.findMessage(typeName), the four stages in turn, each taking
\* the first key of this.schemas that matches
findMessageByStages(sch, name) ==
  LET clean == cleanName(name)
  IN IF name = <<>> THEN NoDesc
     ELSE IF exactKeys(sch, clean) # {} THEN sch[FirstIndex(exactKeys(sch, clean))].def
     ELSE IF suffixKeys(sch, clean) # {} THEN sch[FirstIndex(suffixKeys(sch, clean))].def
     ELSE IF tailKeys(sch, clean) # {} THEN sch[FirstIndex(tailKeys(sch, clean))].def
     ELSE IF Cardinality(segmentKeys(sch, clean)) = 1
       THEN sch[FirstIndex(segmentKeys(sch, clean))].def
     ELSE NoDesc

\* the full names a registerSchema call can carry: B, a.B, c.B, aB, a.b, c.a.B
KeyPool == {<<12>>, <<1, 10, 12>>, <<3, 10, 12>>, <<1, 12>>, <<1, 10, 2>>,
            <<3, 10, 1, 10, 12>>}

\* the type names looked up: the full names, and b, .B, d.B, d, a.B.c, ""
NameChoices == KeyPool \cup {<<2>>, <<10, 12>>, <<4, 10, 12>>, <<4>>,
                             <<1, 10, 12, 10, 3>>, <<>>}

\* the messages of one registerSchema call, in the order of its object
KeyLists ==
  {keys \in SeqsUpTo(KeyPool, MaxMessages) :
     \A i, j \in DOMAIN keys : i # j => keys[i] # keys[j]}

messagesOf(keys) ==
  [i \in DOMAIN keys |-> [key |-> keys[i], def |-> Def(keys[i], FALSE)]]

\* engine.registerSchema({ messages }) on a new engine
EngineRegister(messages) ==
  /\ schemas = <<>>
  /\ found = NoValue
  /\ messages # <<>>
  /\ schemas' = schemasAfter(schemas, messages)
  /\ UNCHANGED <<registry, services, nclears>>
  /\ UNCHANGED <<typeName, found, input, decodedValue>>
  /\ UNCHANGED storeVars
  /\ UNCHANGED frameVars
  /\ UNCHANGED auxVars

\* engine.findMessage(typeName)
FindMessage ==
  /\ found = NoValue
  /\ found' = findMessageByStages(schemas, typeName)
  /\ UNCHANGED <<typeName, input, decodedValue>>
  /\ UNCHANGED engineVars
  /\ UNCHANGED storeVars
  /\ UNCHANGED frameVars
  /\ UNCHANGED auxVars

ResolveInit ==
  /\ StoreInit(Calls)
  /\ FrameIdle
  /\ ToolIdle
  /\ typeName \in NameChoices
  /\ found = NoValue
  /\ input = <<>>
  /\ decodedValue = NoValue

ResolveNext ==
  \/ \E keys \in KeyLists : EngineRegister(messagesOf(keys))
  \/ FindMessage

ResolveSpec == ResolveInit /\ [][ResolveNext]_vars

\* ------------------------------------------------- decoding a message buffer
\* a field definition of a registered message: label 1 is optional, 3 is
\* repeated; type 5 is INT32, 11 is MESSAGE
FieldDef(number, name, type, label) ==
  [isNull |-> FALSE, number |-> number, name |-> name, type |-> type,
   label |-> label]

\* message a.B { int32 a = 1; repeated int32 b = 2; a.B c = 3; }
TypedFields ==
  <<FieldDef(1, "a", 5, 1), FieldDef(2, "b", 5, 3), FieldDef(3, "c", 11, 1)>>

TypedMessages ==
  <<[key |-> <<1, 10, 12>>,
     def |-> [isNull |-> FALSE, fullName |-> <<1, 10, 12>>, desc |-> FALSE,
              fields |-> TypedFields]]>>

\* schema ? schema.fields : []
fieldsOf(schema) == IF schema.isNull THEN <<>> ELSE schema.fields

\* a varint field on the wire: its tag byte, then its groups, the
\* continuation bit set on all but the last
Wire(piece) ==
  <<piece.number * 8>>
    \o [i \in DOMAIN piece.groups |->
          IF i < Len(piece.groups) THEN piece.groups[i] + 128
          ELSE piece.groups[i]]

RECURSIVE WireOf(_)
WireOf(pieces) ==
  IF pieces = <<>> THEN <<>> ELSE Wire(Head(pieces)) \o WireOf(Tail(pieces))

\* the varint fields a buffer is built of: fields 1 and 2 with the values
\* 1, 2 and 300
Pieces ==
  {[number |-> n, groups |-> g] : n \in {1, 2}, g \in {<<1>>, <<2>>, <<44, 2>>}}

PieceSeqs == SeqsUpTo(Pieces, MaxPieces)

WireInputs == {WireOf(ps) : ps \in PieceSeqs}

\* the bytes of a length-delimited field of unknown type: a zero tag, a
\* value, the tag of field 1 as varint, and a byte that continues a varint
\* and is not UTF-8 on its own
BlindBytes == {0, 1, 8, 129}

BlindPayloads == SeqsUpTo(BlindBytes, MaxFieldLen)

\* field 1, length-delimited, with the payload
BlindInputs == {<<10, Len(raw)>> \o raw : raw \in BlindPayloads}

\* the tags with field number 0 and wire types 0 and 2
ZeroTags == {0, 2}

\* at most one field, a tag with field number 0, and what follows it
ZeroInputs ==
  {WireOf(ps) \o <<z>> \o rest :
     ps \in SeqsUpTo(Pieces, 1), z \in ZeroTags, rest \in SeqsUpTo(BlindBytes, 2)}

CodecInputs == WireInputs \cup BlindInputs \cup ZeroInputs

\* engine.registerSchema({ messages: { "a.B": ... } }) on a new engine
RegisterTyped ==
  /\ schemas = <<>>
  /\ decodedValue = NoValue
  /\ schemas' = schemasAfter(schemas, TypedMessages)
  /\ UNCHANGED <<registry, services, nclears>>
  /\ UNCHANGED <<typeName, found, input, decodedValue>>
  /\ UNCHANGED storeVars
  /\ UNCHANGED frameVars
  /\ UNCHANGED auxVars

\* engine.decodeMessage(typeName, buffer)
DecodeMessage ==
  LET schema == findMessageByStages(schemas, typeName)
  IN /\ decodedValue = NoValue
     /\ found' = schema
     /\ decodedValue' = [kind |-> "message",
                         fields |-> decode(fieldsOf(schema), input, 0, <<>>).fields]
     /\ UNCHANGED <<typeName, input>>
     /\ UNCHANGED engineVars
     /\ UNCHANGED storeVars
     /\ UNCHANGED frameVars
     /\ UNCHANGED auxVars

\* decodeProtobufRaw(buffer)
DecodeRaw ==
  /\ decodedValue = NoValue
  /\ decodedValue' = [kind |-> "raw", fields |-> readMessage(input, 0, <<>>).fields]
  /\ UNCHANGED <<typeName, found, input>>
  /\ UNCHANGED engineVars
  /\ UNCHANGED storeVars
  /\ UNCHANGED frameVars
  /\ UNCHANGED auxVars

CodecInit ==
  /\ StoreInit(Calls)
  /\ FrameIdle
  /\ ToolIdle
  /\ typeName \in {<<1, 10, 12>>, <<4>>}
  /\ found = NoValue
  /\ input \in CodecInputs
  /\ decodedValue = NoValue

CodecNext ==
  \/ RegisterTyped
  \/ DecodeMessage
  \/ DecodeRaw

CodecSpec == CodecInit /\ [][CodecNext]_vars

\* ------------------------------------------------------------ clearing
\* clearAllSchemas(), from the Services view, a task of its own: the stores
\* and the engine's two maps are emptied; the engine's registry and
\* localProtoRegistered are not touched
ClearAllSchemas ==
  /\ nclears < MaxClears
  /\ TaskBoundary
  /\ flushing' = FALSE
  /\ nclears' = nclears + 1
  /\ services' = <<>>
  /\ reflectionStatus' = "null"
  /\ reflectedServers' = {}
  /\ reflectionPromises' = [o \in Origins |-> 0]
  /\ schemas' = <<>>
  /\ serviceMap' = {}
  /\ fileSet' = NoFiles
  /\ UNCHANGED <<registry, localProtoRegistered, fetches>>
  /\ UNCHANGED <<objs, log, calls, tasks, ncalls, nregs, captured, owed, ready>>
  /\ UNCHANGED frameVars
  /\ UNCHANGED codecVars
  /\ UNCHANGED toolVars

\* the outcomes of fetchFromServer, with a client that builds a FileRegistry
\* from the descriptors (official) or one that returns plain data
RegistryResults ==
  {[kind |-> "schema", paths |-> S, official |-> official] :
     S \in SchemaChoices \ {{}}, official \in BOOLEAN}
    \cup {[kind |-> "null", paths |-> {}, official |-> FALSE]}

\* records without bodies, which processEntry has nothing to decode of,
\* reflection results with and without a registry, schemas registered by
\* the page, and the Clear button
ClearNext ==
  \/ \E p \in Calls : \E id \in Ids : AddLogStart(p, id, 0, 0, "plain")
  \/ \E k \in DOMAIN fetches : \E result \in RegistryResults : FetchComplete(k, result)
  \/ \E paths \in SchemaChoices \ {{}} : \E auto \in BOOLEAN :
       \E official \in BOOLEAN : RegisterData(paths, auto, official)
  \/ ClearAllSchemas
  \/ \E p \in DOMAIN calls : OwnerResume(p)
  \/ \E p \in DOMAIN calls : WaiterResume(p)
  \/ \E p \in DOMAIN calls : ProcessStart(p)
  \/ \E p \in DOMAIN calls : LogUpdate(p)
  \/ \E p \in DOMAIN calls : \E i \in DOMAIN tasks[p] : ReprocessSettle(p, i)
  \/ \E p \in DOMAIN calls : ReprocessFinish(p)

ClearSpec == Init /\ [][ClearNext]_vars

\* ------------------------------------------------- registering descriptors
\* a FileDescriptorProto: its name, its messages and its service methods
File(name, messages, methods) ==
  [name |-> name, messages |-> messages, methods |-> methods]

\* a.proto with message a.B and method /a/B, a.proto with message a.C and
\* method /a/C, and c.proto with message c.B
FilePool ==
  {File(1, {<<1, 10, 12>>}, {PathAB}), File(1, {<<1, 10, 13>>}, {PathAC}),
   File(2, {<<3, 10, 12>>}, {})}

\* a FileDescriptorSet: files of different names
DescriptorSets ==
  {set \in SUBSET FilePool :
     set # {} /\ \A f, g \in set : f.name = g.name => f = g}

messagesOfSet(set) == UNION {f.messages : f \in set}

methodsOfSet(set) == UNION {f.methods : f \in set}

\* `for (const desc of this.registry)`: the files in the order of their
\* names, the messages of each set in this.schemas as its DescMessage
RECURSIVE descMessages(_)
descMessages(set) ==
  IF set = {} THEN <<>>
  ELSE LET f == CHOOSE g \in set : \A h \in set : g.name <= h.name
           names == Ascending({n[Len(n)] : n \in f.messages})
       IN [i \in DOMAIN names |->
             LET name == CHOOSE n \in f.messages : n[Len(n)] = names[i]
             IN [key |-> name, def |-> Def(name, TRUE)]]
            \o descMessages(set \ {f})

\* the descriptor set once the files of `set` are registered: a file of the
\* same name is replaced
filesAfter(files, set) ==
  [n \in DOMAIN files |->
     IF \E f \in set : f.name = n
       THEN LET f == CHOOSE g \in set : g.name = n
            IN [messages |-> f.messages, methods |-> f.methods]
       ELSE files[n]]

\* engine.registerFromBytes(fileDescriptorSetBytes); ok is FALSE when
\* fromBinary or createFileRegistry throws, which is caught and logged
RegisterFromBytes(set, ok) ==
  /\ nregs < MaxRegistrations
  /\ nregs' = nregs + 1
  /\ IF ok
       THEN /\ registry' = [isNull |-> FALSE, names |-> messagesOfSet(set)]
            /\ schemas' = schemasAfter(schemas, descMessages(set))
            /\ serviceMap' = registerSchema(serviceMap, methodsOfSet(set))
            /\ fileSet' = filesAfter(fileSet, set)
       ELSE UNCHANGED <<registry, schemas, serviceMap, fileSet>>
  /\ UNCHANGED <<services, nclears>>
  /\ UNCHANGED <<reflectedServers, reflectionPromises, fetches,
                 localProtoRegistered, reflectionStatus>>
  /\ UNCHANGED <<objs, log, calls, tasks, ncalls, captured, owed, ready, flushing>>
  /\ UNCHANGED frameVars
  /\ UNCHANGED codecVars
  /\ UNCHANGED toolVars

\* engine.registerSchema(data)
EngineRegisterSchema(data) ==
  /\ nregs < MaxRegistrations
  /\ nregs' = nregs + 1
  /\ registry' = registryAfter(registry, data)
  /\ schemas' = schemasAfter(schemas, data.messages)
  /\ serviceMap' = registerSchema(serviceMap, data.paths)
  /\ fileSet' = looseAfter(fileSet, data)
  /\ UNCHANGED <<services, nclears>>
  /\ UNCHANGED <<reflectedServers, reflectionPromises, fetches,
                 localProtoRegistered, reflectionStatus>>
  /\ UNCHANGED <<objs, log, calls, tasks, ncalls, captured, owed, ready, flushing>>
  /\ UNCHANGED frameVars
  /\ UNCHANGED codecVars
  /\ UNCHANGED toolVars

RegistryNext ==
  \/ \E set \in DescriptorSets : \E ok \in BOOLEAN : RegisterFromBytes(set, ok)
  \/ \E paths \in SchemaChoices \ {{}} : \E official \in BOOLEAN :
       EngineRegisterSchema(schemaData(paths, official))

RegistrySpec == Init /\ [][RegistryNext]_vars

\* --------------------------------------------------------- _topologicalSort
\* fileMap is the Map name -> FileDescriptorProto in the order of its keys,
\* a file being its name and its dependency list; sortStack holds the visit
\* calls that are running, each with the index of the dependency it visits
\* next

\* fileMap.get(name): the index of the file, 0 when there is none
fdIndex(map, name) == FirstIndex({i \in DOMAIN map : map[i].name = name})

\* visit(name) up to its recursion: which of its branches is taken
visitOutcome(name) ==
  IF name \in visited THEN "visited"
  ELSE IF name \in visiting THEN "circular"
  ELSE IF fdIndex(fileMap, name) = 0 THEN "missing"
  ELSE "descend"

\* the dependency the for loop of a visit turns to after visit(dep) returned
nextDepAbandon(i, dependency, circular) ==
  IF circular THEN Len(dependency) + 1 ELSE i + 1

nextDep(i, dependency, circular) == i + 1

\* sorted.push(fd) with the file put first
pushFirst(list, name) == <<name>> \o list

\* sorted.push(fd)
push(list, name) == Append(list, name)

\* visit(name) is called with `callers` running: it returns at once, with a
\* warning when the name is being visited, or adds the name to visiting and
\* enters its for loop
Visit(name, callers) ==
  LET outcome == visitOutcome(name)
  IN /\ warned' = IF outcome = "circular" THEN Append(warned, name) ELSE warned
     /\ visiting' = IF outcome = "descend" THEN visiting \cup {name} ELSE visiting
     /\ sortStack' = IF outcome = "descend"
                       THEN Append(callers, [name |-> name, i |-> 1])
                       ELSE callers

\* `for (const name of fileMap.keys()) visit(name)`: the next key
SortVisitKey ==
  /\ sortPc = "loop"
  /\ sortStack = <<>>
  /\ keyAt <= Len(fileMap)
  /\ keyAt' = keyAt + 1
  /\ Visit(fileMap[keyAt].name, <<>>)
  /\ UNCHANGED <<fileMap, sorted, visited, sortPc>>
  /\ UNCHANGED <<collected, built>>
  /\ UNCHANGED <<storeVars, frameVars, engineVars, codecVars, historyVars>>
  /\ UNCHANGED <<clientVars, readerVars, captureVars, sliceVars>>

\* `for (const dep of fd.dependency || []) visit(dep)`: the next dependency
\* of the visit that is running
SortVisitDep ==
  /\ sortPc = "loop"
  /\ sortStack # <<>>
  /\ LET top == sortStack[Len(sortStack)]
         fd == fileMap[fdIndex(fileMap, top.name)]
     IN /\ top.i <= Len(fd.dependency)
        /\ Visit(fd.dependency[top.i],
                 [sortStack EXCEPT ![Len(sortStack)].i =
                    nextDep(top.i, fd.dependency,
                            visitOutcome(fd.dependency[top.i]) = "circular")])
  /\ UNCHANGED <<fileMap, sorted, visited, keyAt, sortPc>>
  /\ UNCHANGED <<collected, built>>
  /\ UNCHANGED <<storeVars, frameVars, engineVars, codecVars, historyVars>>
  /\ UNCHANGED <<clientVars, readerVars, captureVars, sliceVars>>

\* the for loop of the running visit is over: the file is sorted
SortLeave ==
  /\ sortPc = "loop"
  /\ sortStack # <<>>
  /\ LET top == sortStack[Len(sortStack)]
         fd == fileMap[fdIndex(fileMap, top.name)]
     IN /\ top.i > Len(fd.dependency)
        /\ visiting' = visiting \ {top.name}
        /\ visited' = visited \cup {top.name}
        /\ sorted' = push(sorted, top.name)
        /\ sortStack' = SubSeq(sortStack, 1, Len(sortStack) - 1)
  /\ UNCHANGED <<fileMap, keyAt, sortPc, warned>>
  /\ UNCHANGED <<collected, built>>
  /\ UNCHANGED <<storeVars, frameVars, engineVars, codecVars, historyVars>>
  /\ UNCHANGED <<clientVars, readerVars, captureVars, sliceVars>>

\* return sorted
SortReturn ==
  /\ sortPc = "loop"
  /\ sortStack = <<>>
  /\ keyAt > Len(fileMap)
  /\ sortPc' = "done"
  /\ UNCHANGED <<fileMap, sorted, visited, visiting, sortStack, keyAt, warned>>
  /\ UNCHANGED <<collected, built>>
  /\ UNCHANGED <<storeVars, frameVars, engineVars, codecVars, historyVars>>
  /\ UNCHANGED <<clientVars, readerVars, captureVars, sliceVars>>

\* the dependency lists of a file: names of the map and one name outside it
DepLists ==
  {deps \in SeqsUpTo(1..(NumSortFiles + 1), MaxDeps) :
     \A i, j \in DOMAIN deps : i # j => deps[i] # deps[j]}

\* the dependency lists of n files that have `edges` dependencies or fewer
\* together
RECURSIVE DepsOfFiles(_, _)
DepsOfFiles(n, edges) ==
  IF n = 0 THEN {<<>>}
  ELSE UNION {{Append(rest, deps) : rest \in DepsOfFiles(n - 1, edges - Len(deps))} :
                deps \in {d \in DepLists : Len(d) <= edges}}

FileMaps ==
  {[i \in 1..NumSortFiles |->
      [name |-> i, dependency |-> deps[i], builtin |-> FALSE]] :
     deps \in DepsOfFiles(NumSortFiles, MaxEdges)}

SortInit ==
  /\ StoreInit(Calls)
  /\ FrameIdle
  /\ CodecIdle
  /\ ClientIdle
  /\ ReaderIdle
  /\ CaptureIdle
  /\ SliceIdle
  /\ fileMap \in FileMaps
  /\ sorted = <<>>
  /\ visited = {}
  /\ visiting = {}
  /\ sortStack = <<>>
  /\ keyAt = 1
  /\ sortPc = "loop"
  /\ warned = <<>>
  /\ collected = <<>>
  /\ built = NoValue

SortStep ==
  \/ SortVisitKey
  \/ SortVisitDep
  \/ SortLeave
  \/ SortReturn

SortSpec == SortInit /\ [][SortStep]_vars

\* the call runs to its return
SortFairSpec == SortSpec /\ WF_vars(SortStep)

\* -------------------------------------------------- _buildRegistryFromBytes
\* two of the names of WKT_FILES, google/protobuf/timestamp.proto and
\* google/protobuf/any.proto, and the files the library has for them
WktNames == {8, 9}

WKT_FILES ==
  <<[name |-> 8, dependency |-> <<>>, builtin |-> TRUE],
    [name |-> 9, dependency |-> <<>>, builtin |-> TRUE]>>

\* fileDescriptorMap.set(fd.name, fd): a new name is added last, a name
\* that is present keeps its place
setFile(map, fd) ==
  IF fdIndex(map, fd.name) = 0 THEN Append(map, fd)
  ELSE [map EXCEPT ![fdIndex(map, fd.name)] = fd]

RECURSIVE setFiles(_, _)
setFiles(map, list) ==
  IF list = <<>> THEN map ELSE setFiles(setFile(map, Head(list)), Tail(list))

\* a built-in file is put in the map whatever the map has
injectsAlways(map, name) == TRUE

\* !fileDescriptorMap.has(name)
injects(map, name) == fdIndex(map, name) = 0

\* the loop over WKT_FILES.entries()
RECURSIVE withWkt(_, _)
withWkt(map, files) ==
  IF files = <<>> THEN map
  ELSE withWkt(IF injects(map, Head(files).name) THEN setFile(map, Head(files))
               ELSE map,
               Tail(files))

\* _buildRegistryFromBytes(descriptorBytesList) up to its _topologicalSort
\* call; with no file descriptor it returns a result without registry
BuildMap ==
  /\ sortPc = "build"
  /\ IF collected = <<>>
       THEN /\ built' = [kind |-> "null", files |-> {}]
            /\ sortPc' = "built"
            /\ UNCHANGED fileMap
       ELSE /\ fileMap' = withWkt(setFiles(<<>>, collected), WKT_FILES)
            /\ sortPc' = "loop"
            /\ UNCHANGED built
  /\ UNCHANGED <<sorted, visited, visiting, sortStack, keyAt, warned, collected>>
  /\ UNCHANGED <<storeVars, frameVars, engineVars, codecVars, historyVars>>
  /\ UNCHANGED <<clientVars, readerVars, captureVars, sliceVars>>

\* the files reached from `names` along dependencies that are in the map
RECURSIVE closureOf(_, _)
closureOf(map, names) ==
  LET more == names \cup
                {dep \in UNION {{map[i].dependency[j] : j \in DOMAIN map[i].dependency} :
                                  i \in {k \in DOMAIN map : map[k].name \in names}} :
                   fdIndex(map, dep) # 0}
  IN IF more = names THEN names ELSE closureOf(map, more)

\* createFileRegistry of the library: the sorted set makes a registry when
\* every dependency is in it and before its file; otherwise the resolver
\* fallback from fileDescriptors[0] makes one, or throws as well
BuildFinish(fallback) ==
  /\ sortPc = "done"
  /\ collected # <<>>
  /\ sortPc' = "built"
  /\ built' =
       IF /\ warned = <<>>
          /\ \A i \in DOMAIN fileMap : \A j \in DOMAIN fileMap[i].dependency :
               fdIndex(fileMap, fileMap[i].dependency[j]) # 0
         THEN [kind |-> "registry", files |-> {sorted[i] : i \in DOMAIN sorted}]
       ELSE IF fallback
         THEN [kind |-> "fallback", files |-> closureOf(fileMap, {collected[1].name})]
       ELSE [kind |-> "null", files |-> {}]
  /\ UNCHANGED <<fileMap, sorted, visited, visiting, sortStack, keyAt, warned, collected>>
  /\ UNCHANGED <<storeVars, frameVars, engineVars, codecVars, historyVars>>
  /\ UNCHANGED <<clientVars, readerVars, captureVars, sliceVars>>

\* the file descriptors collected: files 1 and 2 and files of the server
\* with well-known names, each with one dependency at most
CollectedFiles ==
  {[name |-> n, dependency |-> deps, builtin |-> FALSE] :
     n \in {1, 2} \cup WktNames,
     deps \in SeqsUpTo({1, 2} \cup WktNames, 1)}

BuildInit ==
  /\ StoreInit(Calls)
  /\ FrameIdle
  /\ CodecIdle
  /\ ClientIdle
  /\ ReaderIdle
  /\ CaptureIdle
  /\ SliceIdle
  /\ collected \in SeqsUpTo(CollectedFiles, MaxCollected)
  /\ built = NoValue
  /\ fileMap = <<>>
  /\ sorted = <<>>
  /\ visited = {}
  /\ visiting = {}
  /\ sortStack = <<>>
  /\ keyAt = 1
  /\ sortPc = "build"
  /\ warned = <<>>

BuildNext ==
  \/ BuildMap
  \/ SortStep
  \/ \E fallback \in BOOLEAN : BuildFinish(fallback)

BuildSpec == BuildInit /\ [][BuildNext]_vars

\* ------------------------------------------------ ReflectionClient, fetching
REFLECTION_SERVICES ==
  <<"grpc.reflection.v1.ServerReflection",
    "grpc.reflection.v1alpha.ServerReflection">>

\* the files of the server; service s is defined in file s, and service 0 is
\* the reflection service itself (its name includes 'grpc.reflection')
FetchNames == {1, 2}

\* what listServices gives: it throws, gives null, or gives the names
ListReplies ==
  {[kind |-> "throws", names |-> <<>>], [kind |-> "null", names |-> <<>>]}
    \cup {[kind |-> "list", names |-> names] :
            names \in {<<>>, <<0>>, <<0, 1>>, <<0, 1, 2>>}}

RECURSIVE edgesOf(_)
edgesOf(list) ==
  IF list = <<>> THEN 0 ELSE Len(Head(list).dependency) + edgesOf(Tail(list))

\* what getFileContainingSymbol and getFileByFilename give for a name of the
\* server: they throw, give null, or give the file of that name, alone or
\* followed by another file of the server
ServerFile(n, room) ==
  {[name |-> n, dependency |-> deps, builtin |-> FALSE] :
     deps \in SeqsUpTo(FetchNames, room)}

FileReplies(n, room) ==
  {[kind |-> "throws", files |-> <<>>], [kind |-> "null", files |-> <<>>]}
    \cup {[kind |-> "files", files |-> <<fd>>] : fd \in ServerFile(n, room)}
    \cup UNION {{[kind |-> "files", files |-> <<fd, more>>] :
                   more \in UNION {ServerFile(m, room - Len(fd.dependency)) :
                                     m \in FetchNames \ {n}}} :
                  fd \in ServerFile(n, room)}

\* the dependencies the server may still name
Room == MaxFetchEdges - edgesOf(collected)

Contact(request, name, reply) ==
  [version |-> REFLECTION_SERVICES[versionAt], request |-> request,
   name |-> name, reply |-> reply.kind]

\* the next element of REFLECTION_SERVICES, or return null after the last
NextVersion ==
  IF versionAt = Len(REFLECTION_SERVICES)
    THEN /\ fetchPc' = "returned"
         /\ fetchResult' = [version |-> "", value |-> [kind |-> "null", files |-> {}]]
         /\ UNCHANGED versionAt
    ELSE /\ fetchPc' = "list"
         /\ versionAt' = versionAt + 1
         /\ UNCHANGED fetchResult

FetchRest == UNCHANGED <<storeVars, frameVars, engineVars, codecVars, historyVars,
                         readerVars, captureVars, sliceVars>>

SortRest == UNCHANGED <<fileMap, sorted, visited, visiting, sortStack, keyAt,
                        warned, built>>

\* Step 1 of fetchFromServer: const services = await this.listServices(...)
ListServices(reply) ==
  /\ fetchPc = "list"
  /\ contacts' = Append(contacts, Contact("ListServices", 0, reply))
  /\ IF reply.kind = "list" /\ reply.names # <<>>
       THEN /\ svcNames' = reply.names
            /\ svcAt' = 1
            /\ fetchPc' = "symbols"
            /\ UNCHANGED <<versionAt, fetchResult>>
       ELSE /\ NextVersion
            /\ UNCHANGED <<svcNames, svcAt>>
  /\ collected' = <<>>
  /\ loadedFiles' = {}
  /\ unanswered' = {}
  /\ UNCHANGED <<loadStack, sortPc>>
  /\ SortRest
  /\ FetchRest

\* if (serviceName.includes('grpc.reflection')) continue;
SkipReflectionService ==
  /\ fetchPc = "symbols"
  /\ svcAt <= Len(svcNames)
  /\ svcNames[svcAt] = 0
  /\ svcAt' = svcAt + 1
  /\ UNCHANGED <<fetchPc, versionAt, svcNames, loadedFiles, loadStack, contacts,
                 unanswered, fetchResult, collected, sortPc>>
  /\ SortRest
  /\ FetchRest

\* await this.getFileContainingSymbol(...) and the call of loadFileDescriptors
GetFileContainingSymbol ==
  /\ fetchPc = "symbols"
  /\ svcAt <= Len(svcNames)
  /\ svcNames[svcAt] # 0
  /\ svcAt' = svcAt + 1
  /\ \E reply \in FileReplies(svcNames[svcAt], Room) :
       /\ contacts' = Append(contacts,
                             Contact("FileContainingSymbol", svcNames[svcAt], reply))
       /\ IF reply.kind = "files"
            THEN /\ loadStack' = <<[files |-> reply.files, at |-> 1, depAt |-> 0]>>
                 /\ fetchPc' = "load"
            ELSE UNCHANGED <<loadStack, fetchPc>>
  /\ UNCHANGED <<versionAt, svcNames, loadedFiles, unanswered, fetchResult, collected, sortPc>>
  /\ SortRest
  /\ FetchRest

\* a file is collected under every name again
neverLoaded(files, name) == FALSE

\* loadedFiles.has(descriptor.name)
hasLoaded(files, name) == name \in files

\* the frame after one more dependency: the next dependency, or the next file
afterDep(frame) ==
  IF frame.depAt + 1 > Len(frame.files[frame.at].dependency)
    THEN [frame EXCEPT !.at = @ + 1, !.depAt = 0]
    ELSE [frame EXCEPT !.depAt = @ + 1]

\* loadFileDescriptors: the next of descriptorBytes, skipped when its name is
\* loaded, otherwise collected
LoadFile ==
  /\ fetchPc = "load"
  /\ loadStack # <<>>
  /\ LET frame == loadStack[Len(loadStack)]
     IN /\ frame.at <= Len(frame.files)
        /\ frame.depAt = 0
        /\ IF hasLoaded(loadedFiles, frame.files[frame.at].name)
             THEN /\ loadStack' = [loadStack EXCEPT ![Len(loadStack)].at = @ + 1]
                  /\ UNCHANGED <<loadedFiles, collected>>
             ELSE /\ loadedFiles' = loadedFiles \cup {frame.files[frame.at].name}
                  /\ collected' = Append(collected, frame.files[frame.at])
                  /\ loadStack' = [loadStack EXCEPT ![Len(loadStack)] = afterDep(frame)]
  /\ UNCHANGED <<fetchPc, versionAt, svcNames, svcAt, contacts, unanswered, fetchResult, sortPc>>
  /\ SortRest
  /\ FetchRest

\* if (loadedFiles.has(depName)) continue;
SkipLoadedDependency ==
  /\ fetchPc = "load"
  /\ loadStack # <<>>
  /\ LET frame == loadStack[Len(loadStack)]
     IN /\ frame.at <= Len(frame.files)
        /\ frame.depAt > 0
        /\ frame.files[frame.at].dependency[frame.depAt] \in loadedFiles
        /\ loadStack' = [loadStack EXCEPT ![Len(loadStack)] = afterDep(frame)]
  /\ UNCHANGED <<fetchPc, versionAt, svcNames, svcAt, loadedFiles, contacts,
                 unanswered, fetchResult, collected, sortPc>>
  /\ SortRest
  /\ FetchRest

\* await this.getFileByFilename(...) for a dependency that is not loaded, and
\* the recursive call of loadFileDescriptors when it gave something
GetFileByFilename ==
  /\ fetchPc = "load"
  /\ loadStack # <<>>
  /\ LET frame == loadStack[Len(loadStack)]
         depName == frame.files[frame.at].dependency[frame.depAt]
     IN /\ frame.at <= Len(frame.files)
        /\ frame.depAt > 0
        /\ depName \notin loadedFiles
        /\ \E reply \in FileReplies(depName, Room) :
             /\ contacts' = Append(contacts, Contact("FileByFilename", depName, reply))
             /\ IF reply.kind = "files"
                  THEN /\ loadStack' =
                            Append([loadStack EXCEPT ![Len(loadStack)] = afterDep(frame)],
                                   [files |-> reply.files, at |-> 1, depAt |-> 0])
                       /\ UNCHANGED unanswered
                  ELSE /\ loadStack' =
                            [loadStack EXCEPT ![Len(loadStack)] = afterDep(frame)]
                       /\ unanswered' = unanswered \cup {depName}
  /\ UNCHANGED <<fetchPc, versionAt, svcNames, svcAt, loadedFiles, fetchResult, collected, sortPc>>
  /\ SortRest
  /\ FetchRest

\* the end of one call of loadFileDescriptors
LoadReturn ==
  /\ fetchPc = "load"
  /\ loadStack # <<>>
  /\ loadStack[Len(loadStack)].at > Len(loadStack[Len(loadStack)].files)
  /\ loadStack' = SubSeq(loadStack, 1, Len(loadStack) - 1)
  /\ fetchPc' = IF Len(loadStack) = 1 THEN "symbols" ELSE "load"
  /\ UNCHANGED <<versionAt, svcNames, svcAt, loadedFiles, contacts, unanswered,
                 fetchResult, collected, sortPc>>
  /\ SortRest
  /\ FetchRest

\* a result is built whatever was collected
yieldsAlways(bytes) == TRUE

\* allDescriptorBytes.length > 0
yields(bytes) == bytes # <<>>

\* after the loop over the services: build the registry of what was
\* collected, or go on with the next version
FetchCollected ==
  /\ fetchPc = "symbols"
  /\ svcAt > Len(svcNames)
  /\ IF yields(collected)
       THEN /\ fetchPc' = "building"
            /\ sortPc' = "build"
            /\ UNCHANGED <<versionAt, fetchResult>>
       ELSE /\ NextVersion
            /\ UNCHANGED sortPc
  /\ UNCHANGED <<svcNames, svcAt, loadedFiles, loadStack, contacts, unanswered, collected>>
  /\ SortRest
  /\ FetchRest

\* return result;
FetchReturn ==
  /\ fetchPc = "building"
  /\ sortPc = "built"
  /\ fetchPc' = "returned"
  /\ fetchResult' = [version |-> REFLECTION_SERVICES[versionAt], value |-> built]
  /\ UNCHANGED <<versionAt, svcNames, svcAt, loadedFiles, loadStack, contacts,
                 unanswered, collected, sortPc>>
  /\ SortRest
  /\ FetchRest

FetchInit ==
  /\ StoreInit(Calls)
  /\ FrameIdle
  /\ CodecIdle
  /\ SortIdle
  /\ ReaderIdle
  /\ CaptureIdle
  /\ SliceIdle
  /\ fetchPc = "list"
  /\ versionAt = 1
  /\ svcNames = <<>>
  /\ svcAt = 1
  /\ loadedFiles = {}
  /\ loadStack = <<>>
  /\ contacts = <<>>
  /\ unanswered = {}
  /\ fetchResult = NoValue

FetchStep ==
  \/ \E reply \in ListReplies : ListServices(reply)
  \/ SkipReflectionService
  \/ GetFileContainingSymbol
  \/ LoadFile
  \/ SkipLoadedDependency
  \/ GetFileByFilename
  \/ LoadReturn
  \/ FetchCollected
  \/ BuildMap
  \/ SortStep
  \/ \E fallback \in BOOLEAN : BuildFinish(fallback)
  \/ FetchReturn

FetchSpec == FetchInit /\ [][FetchStep]_vars

FetchFairSpec == FetchSpec /\ WF_vars(FetchStep)

\* ------------------------------------------------- reading the wire format
RECURSIVE pow2(_)
pow2(n) == IF n <= 0 THEN 1 ELSE 2 * pow2(n - 1)

\* descriptor-parser readVarint(data, pos): the 7-bit groups read and the
\* new position; the loop ends at the end of the data as at a last byte
RECURSIVE parserReadVarint(_, _)
parserReadVarint(data, at) ==
  IF at >= Len(data) THEN [groups |-> <<>>, pos |-> at]
  ELSE LET b == data[at + 1]
       IN IF b < 128 THEN [groups |-> <<b>>, pos |-> at + 1]
          ELSE LET rest == parserReadVarint(data, at + 1)
               IN [groups |-> <<b % 128>> \o rest.groups, pos |-> rest.pos]

\* result |= (byte & 0x7f) << shift on 32 bits, the shift taken modulo 32:
\* bits 0..27 and bits 28..31 of the result after the groups from i on
RECURSIVE orGroups(_, _, _)
orGroups(groups, i, acc) ==
  IF i > Len(groups) THEN acc
  ELSE LET g == groups[i]
           s == (7 * (i - 1)) % 32
           low == IF s < 28 THEN (g % pow2(28 - s)) * pow2(s) ELSE 0
           high == IF s < 28 THEN (g \div pow2(28 - s)) % 16
                   ELSE (g % pow2(32 - s)) * pow2(s - 28)
       IN orGroups(groups, i + 1,
                   [low |-> bitOr(acc.low, low), high |-> bitOr(acc.high, high)])

\* result >>> 0 where it is a length: past the end of any buffer from 2^28 on
parserLength(groups) ==
  LET bits == orGroups(groups, 1, [low |-> 0, high |-> 0])
  IN IF bits.high # 0 THEN 268435456 ELSE bits.low

\* readTag(data, pos): the new position is that of readVarint
readTag(data, at) ==
  LET tag == parserReadVarint(data, at)
      bits == orGroups(tag.groups, 1, [low |-> 0, high |-> 0])
  IN [fieldNum |-> (bits.low \div 8) + 33554432 * bits.high,
      wireType |-> bits.low % 8, pos |-> tag.pos]

\* readLengthDelimited(data, pos): [data.slice(newPos, newPos + length),
\* newPos + length]
readLengthDelimited(data, at) ==
  LET len == parserReadVarint(data, at)
      n == parserLength(len.groups)
  IN [bytes |-> slice(data, len.pos, len.pos + n), pos |-> len.pos + n]

\* while (pos < data.length && (data[pos] & 0x80) !== 0) pos++;
RECURSIVE lastVarintByte(_, _)
lastVarintByte(data, at) ==
  IF at < Len(data) /\ data[at + 1] >= 128 THEN lastVarintByte(data, at + 1) ELSE at

\* the position of the last byte itself
atVarintEnd(at) == at

\* return pos + 1;
afterVarint(at) == at + 1

\* skipField(data, pos, wireType)
skipField(data, at, wireType) ==
  CASE wireType = 0 -> afterVarint(lastVarintByte(data, at))
    [] wireType = 2 -> readLengthDelimited(data, at).pos
    [] wireType = 5 -> at + 4
    [] wireType = 1 -> at + 8
    [] OTHER -> at

\* ProtoReader.readFixed32 and readFixed64: 0 and no move when the bytes
\* are not all there
protoReadFixed(buf, at, size) ==
  IF at + size > Len(buf) THEN at ELSE at + size

\* ProtoReader.readField(wireType): its position afterwards
protoReadField(buf, at, wireType) ==
  CASE wireType = 0 -> readVarint(buf, at).pos
    [] wireType = 1 -> protoReadFixed(buf, at, 8)
    [] wireType = 2 -> readBytes(buf, at).pos
    [] wireType = 5 -> protoReadFixed(buf, at, 4)
    [] OTHER -> at

Families == {"ProtoReader", "descriptor-parser", "ProtobufReader"}

WireTypes == 0..7

\* one read of the reader: whether it returned and the position afterwards
Returned(at) == [ok |-> TRUE, pos |-> at]

Thrown(read) == [ok |-> read.ok, pos |-> read.pos]

ReadStep(op, wireType, outcome) ==
  /\ family \in Families
  /\ nreads < MaxReads
  /\ lastRead.ok
  /\ nreads' = nreads + 1
  /\ cursor' = outcome.pos
  /\ lastRead' = [op |-> op, wireType |-> wireType, from |-> cursor,
                  to |-> outcome.pos, ok |-> outcome.ok]
  /\ UNCHANGED <<family, rbuf>>
  /\ UNCHANGED <<storeVars, frameVars, engineVars, codecVars, historyVars>>
  /\ UNCHANGED <<sortVars, clientVars, captureVars, sliceVars>>

\* readVarint of the three readers
ReadVarint ==
  ReadStep("varint", 0,
           CASE family = "ProtoReader" -> Returned(readVarint(rbuf, cursor).pos)
             [] family = "descriptor-parser" -> Returned(parserReadVarint(rbuf, cursor).pos)
             [] OTHER -> Thrown(readVarint32(rbuf, cursor, 0)))

\* readTag of descriptor-parser
ReadTag ==
  /\ family = "descriptor-parser"
  /\ ReadStep("tag", 0, Returned(readTag(rbuf, cursor).pos))

\* readFixed32 of ProtoReader and ProtobufReader
ReadFixed32 ==
  /\ family # "descriptor-parser"
  /\ ReadStep("fixed32", 5,
              IF family = "ProtoReader" THEN Returned(protoReadFixed(rbuf, cursor, 4))
              ELSE Thrown(readFixed32(rbuf, cursor)))

\* readFixed64 of ProtoReader and ProtobufReader
ReadFixed64 ==
  /\ family # "descriptor-parser"
  /\ ReadStep("fixed64", 1,
              IF family = "ProtoReader" THEN Returned(protoReadFixed(rbuf, cursor, 8))
              ELSE Thrown(readField32(rbuf, cursor, 1)))

\* ProtoReader.readBytes, readLengthDelimited of the other two
ReadLengthDelimited ==
  ReadStep("bytes", 2,
           CASE family = "ProtoReader" -> Returned(readBytes(rbuf, cursor).pos)
             [] family = "descriptor-parser" -> Returned(readLengthDelimited(rbuf, cursor).pos)
             [] OTHER -> Thrown(readField32(rbuf, cursor, 2)))

\* skipField of descriptor-parser; the other two pass a field over with
\* readField(wireType)
SkipField(wireType) ==
  ReadStep("skip", wireType,
           CASE family = "ProtoReader" -> Returned(protoReadField(rbuf, cursor, wireType))
             [] family = "descriptor-parser" -> Returned(skipField(rbuf, cursor, wireType))
             [] OTHER -> Thrown(readField32(rbuf, cursor, wireType)))

\* the buffers read: short ones of a zero, a two and a byte that continues
\* a varint, buffers of zeros that hold a fixed64, and varints of 11 and 12
\* bytes
ReaderBytes == {0, 2, 129}

ReaderBuffers ==
  SeqsUpTo(ReaderBytes, MaxBufLen)
    \cup {[i \in 1..n |-> 0] : n \in {8, 10}}
    \cup {[i \in 1..n |-> 129] \o <<2>> : n \in {10, 11}}

ReaderInit ==
  /\ StoreInit(Calls)
  /\ FrameIdle
  /\ CodecIdle
  /\ SortIdle
  /\ ClientIdle
  /\ CaptureIdle
  /\ SliceIdle
  /\ family \in Families
  /\ rbuf \in ReaderBuffers
  /\ cursor = 0
  /\ nreads = 0
  /\ lastRead = NoRead

ReaderNext ==
  \/ ReadVarint
  \/ ReadTag
  \/ ReadFixed32
  \/ ReadFixed64
  \/ ReadLengthDelimited
  \/ \E wireType \in WireTypes : SkipField(wireType)

ReaderSpec == ReaderInit /\ [][ReaderNext]_vars

\* --------------------------------------------------- devtools.js, capturing
\* what normalizeUrlFuzzy makes of the URLs of two methods
CapturePaths == {"/a.S/B", "/a.S/C"}

HarEntries == 1..NumEntries

\* queue.filter(q => now - q.timestamp < 60000): a body is old when its
\* timestamp is a minute or more back
RECURSIVE fresh(_)
fresh(queue) ==
  IF queue = <<>> THEN <<>>
  ELSE IF ~Head(queue).old THEN <<Head(queue)>> \o fresh(Tail(queue))
  ELSE fresh(Tail(queue))

\* the chrome.runtime.onMessage listener for capturedRequestBody: the body
\* is queued under its path, and every queue is cleaned of bodies that are
\* a minute old (an empty queue is deleted, which reads as an empty one)
CapturedRequestBody(path) ==
  /\ Len(intercepted) < MaxBodies
  /\ LET data == [id |-> Len(intercepted) + 1, path |-> path, old |-> FALSE]
         pushed == [capturedBodies EXCEPT ![path] = Append(@, data)]
     IN /\ capturedBodies' = [p \in CapturePaths |-> fresh(pushed[p])]
        /\ intercepted' = Append(intercepted, path)
  /\ UNCHANGED <<pendingEntries, panelWindow, panelReady, flushTimer, dispatched,
                 harEntries, attached>>
  /\ UNCHANGED <<storeVars, frameVars, engineVars, codecVars, historyVars>>
  /\ UNCHANGED <<sortVars, clientVars, readerVars, sliceVars>>

\* a minute passes: the bodies that are queued are old now
MinutePasses ==
  /\ \E p \in CapturePaths : \E i \in DOMAIN capturedBodies[p] :
       ~capturedBodies[p][i].old
  /\ capturedBodies' =
       [p \in CapturePaths |->
          [i \in DOMAIN capturedBodies[p] |-> [capturedBodies[p][i] EXCEPT !.old = TRUE]]]
  /\ UNCHANGED <<pendingEntries, panelWindow, panelReady, flushTimer,
                 dispatched, harEntries, intercepted, attached>>
  /\ UNCHANGED <<storeVars, frameVars, engineVars, codecVars, historyVars>>
  /\ UNCHANGED <<sortVars, clientVars, readerVars, sliceVars>>

NoEntry == [pc |-> "none", path |-> "", postData |-> FALSE, retryCount |-> 0]

\* chrome.devtools.network.onRequestFinished: an entry that is not gRPC-Web
\* is dropped, another one goes to processEntry, which calls getContent.
\* The entries finish in the order of their numbers
RequestFinished(e, path, grpc, postData) ==
  /\ harEntries[e].pc = "none"
  /\ \A before \in HarEntries : before < e => harEntries[before].pc # "none"
  /\ harEntries' = [harEntries EXCEPT ![e] =
                      IF grpc
                        THEN [pc |-> "loop", path |-> path, postData |-> postData,
                              retryCount |-> 0]
                        ELSE [NoEntry EXCEPT !.pc = "dropped"]]
  /\ UNCHANGED <<capturedBodies, pendingEntries, panelWindow, panelReady, flushTimer,
                 dispatched, intercepted, attached>>
  /\ UNCHANGED <<storeVars, frameVars, engineVars, codecVars, historyVars>>
  /\ UNCHANGED <<sortVars, clientVars, readerVars, sliceVars>>

\* the last body of the queue
lastIn(queue) == Len(queue)

\* queue.shift(): the first body of the queue
shift(queue) == 1

without(queue, i) == SubSeq(queue, 1, i - 1) \o SubSeq(queue, i + 1, Len(queue))

\* the end of processEntry's callback: the record is dispatched to the
\* panel, or kept in pendingEntries
Send(data) ==
  IF panelReady /\ panelWindow = "ready"
    THEN /\ dispatched' = Append(dispatched, data)
         /\ UNCHANGED pendingEntries
    ELSE /\ pendingEntries' = Append(pendingEntries, data)
         /\ UNCHANGED dispatched

\* the callback of entry.getContent from its start or from the end of a
\* wait: one turn of the retry loop, and the rest of the callback when the
\* loop is left
ProcessEntry(e) ==
  /\ harEntries[e].pc = "loop"
  /\ LET entry == harEntries[e]
         queue == capturedBodies[entry.path]
     IN IF entry.retryCount < MaxRetries /\ queue # <<>>
          THEN /\ capturedBodies' =
                    [capturedBodies EXCEPT ![entry.path] = without(queue, shift(queue))]
               /\ attached' = Append(attached, queue[shift(queue)].id)
               /\ Send([id |-> queue[shift(queue)].id, entry |-> e, path |-> entry.path,
                        body |-> queue[shift(queue)].id, status |-> "finished"])
               /\ harEntries' = [harEntries EXCEPT ![e] = [NoEntry EXCEPT !.pc = "done"]]
        ELSE IF entry.retryCount < MaxRetries /\ entry.postData
          THEN /\ harEntries' = [harEntries EXCEPT ![e].pc = "waiting",
                                                   ![e].retryCount = @ + 1]
               /\ UNCHANGED <<capturedBodies, attached, pendingEntries, dispatched>>
        ELSE /\ Send([id |-> 0, entry |-> e, path |-> entry.path, body |-> 0,
                      status |-> "finished"])
             /\ harEntries' = [harEntries EXCEPT ![e] = [NoEntry EXCEPT !.pc = "done"]]
             /\ UNCHANGED <<capturedBodies, attached>>
  /\ UNCHANGED <<panelWindow, panelReady, flushTimer, intercepted>>
  /\ UNCHANGED <<storeVars, frameVars, engineVars, codecVars, historyVars>>
  /\ UNCHANGED <<sortVars, clientVars, readerVars, sliceVars>>

\* await new Promise(res => setTimeout(res, 100)) is over
RetryTimer(e) ==
  /\ harEntries[e].pc = "waiting"
  /\ harEntries' = [harEntries EXCEPT ![e].pc = "loop"]
  /\ UNCHANGED <<capturedBodies, pendingEntries, panelWindow, panelReady, flushTimer,
                 dispatched, intercepted, attached>>
  /\ UNCHANGED <<storeVars, frameVars, engineVars, codecVars, historyVars>>
  /\ UNCHANGED <<sortVars, clientVars, readerVars, sliceVars>>

\* flushPendingEntries(): nothing without panelWindow.dispatchGrpcEvent
Flushed(window) ==
  IF window = "ready"
    THEN /\ dispatched' = dispatched \o pendingEntries
         /\ pendingEntries' = <<>>
    ELSE UNCHANGED <<dispatched, pendingEntries>>

\* panel.onShown: the window is kept; the first time the flush is put on a
\* timer, later it is done at once.  The window has dispatchGrpcEvent or
\* does not have it yet
PanelShown(window) ==
  /\ panelWindow' = window
  /\ IF ~panelReady
       THEN /\ panelReady' = TRUE
            /\ flushTimer' = TRUE
            /\ UNCHANGED <<dispatched, pendingEntries>>
       ELSE /\ Flushed(window)
            /\ UNCHANGED <<panelReady, flushTimer>>
  /\ UNCHANGED <<capturedBodies, harEntries, intercepted, attached>>
  /\ UNCHANGED <<storeVars, frameVars, engineVars, codecVars, historyVars>>
  /\ UNCHANGED <<sortVars, clientVars, readerVars, sliceVars>>

\* setTimeout(flushPendingEntries, 100) fires
FlushTimer ==
  /\ flushTimer
  /\ flushTimer' = FALSE
  /\ Flushed(panelWindow)
  /\ UNCHANGED <<capturedBodies, panelWindow, panelReady, harEntries, intercepted,
                 attached>>
  /\ UNCHANGED <<storeVars, frameVars, engineVars, codecVars, historyVars>>
  /\ UNCHANGED <<sortVars, clientVars, readerVars, sliceVars>>

CaptureInit ==
  /\ StoreInit(Calls)
  /\ FrameIdle
  /\ CodecIdle
  /\ SortIdle
  /\ ClientIdle
  /\ ReaderIdle
  /\ SliceIdle
  /\ capturedBodies = [p \in CapturePaths |-> <<>>]
  /\ pendingEntries = <<>>
  /\ panelWindow = "null"
  /\ panelReady = FALSE
  /\ flushTimer = FALSE
  /\ dispatched = <<>>
  /\ harEntries = [e \in HarEntries |-> NoEntry]
  /\ intercepted = <<>>
  /\ attached = <<>>

CaptureNext ==
  \/ \E path \in CapturePaths : CapturedRequestBody(path)
  \/ MinutePasses
  \/ \E e \in HarEntries : \E path \in CapturePaths : \E grpc, postData \in BOOLEAN :
       RequestFinished(e, path, grpc, postData)
  \/ \E e \in HarEntries : ProcessEntry(e)
  \/ \E e \in HarEntries : RetryTimer(e)
  \/ \E window \in {"loading", "ready"} : PanelShown(window)
  \/ FlushTimer

CaptureSpec == CaptureInit /\ [][CaptureNext]_vars

\* ------------------------------------------------------------------ claims
FetchesOf(o) == {k \in DOMAIN fetches : fetches[k].origin = o}

Started(p) == calls[p].pc # "idle"

\* the per-origin state, read off reflectedServers and reflectionPromises;
\* the value the origin's promise resolved to tells Ready from Failed
OriginState(o) ==
  IF o \in reflectedServers
    THEN IF \E k \in FetchesOf(o) : fetches[k].state = "true"
           THEN "Ready" ELSE "Failed"
  ELSE IF reflectionPromises[o] # 0 THEN "InFlight"
  ELSE "Unknown"

\* C1: for every origin at most one reflection fetch is ever started, and a
\* caller that found a fetch in flight awaits that very fetch.
C1_Coalescing ==
  /\ \A o \in Origins : Cardinality(FetchesOf(o)) <= 1
  /\ \A p \in DOMAIN calls :
       calls[p].role = "join" =>
         /\ calls[p].promise \in FetchesOf(objs[calls[p].entry].origin)
         /\ \E q \in DOMAIN calls :
              calls[q].role = "start" /\ calls[q].promise = calls[p].promise

C1_Witness ==
  \E p \in DOMAIN calls : \E q \in DOMAIN calls :
    /\ calls[p].pc = "owner"
    /\ calls[q].pc = "waiting"
    /\ calls[q].promise = calls[p].promise
    /\ fetches[calls[p].promise].state = "pending"

\* C2: per-origin state only moves Unknown -> InFlight -> Ready | Failed;
\* once Ready or Failed it stays so and no further fetch is started for it.
C2_Terminal ==
  [][\A o \in Origins :
       /\ OriginState(o) = "Unknown" => OriginState(o)' \in {"Unknown", "InFlight"}
       /\ OriginState(o) = "InFlight" =>
            OriginState(o)' \in {"InFlight", "Ready", "Failed"}
       /\ OriginState(o) \in {"Ready", "Failed"} =>
            /\ OriginState(o)' = OriginState(o)
            /\ FetchesOf(o)' = FetchesOf(o)]_vars

C2_Witness ==
  \E p \in DOMAIN calls :
    /\ calls[p].role = "done"
    /\ OriginState(objs[calls[p].entry].origin) = "Failed"
    /\ calls[p].pc = "done"

\* C3: tryAutoReflection resolves to true only when the fetch for the
\* origin succeeded; a waiter of a failed fetch resolves to false.
C3_TrueOnlyOnSuccess ==
  \A p \in DOMAIN calls :
    calls[p].isNew =>
      /\ calls[p].promise # 0
      /\ fetches[calls[p].promise].state = "true"

\* C4: records are in the log in the order addLog was called for them.
C4_LogInCallOrder ==
  \A i \in DOMAIN log : \A j \in DOMAIN log :
    i < j => objs[log[i]].call < objs[log[j]].call

CapturedFor(id) == {c \in captured : c.id = id}

\* C5: every record of the log carries an id that was captured, and the
\* requestRaw and responseRaw captured for that id; decoding, merging and
\* re-decoding never put anything else there.
C5_RawPreserved ==
  \A i \in DOMAIN log :
    LET x == objs[log[i]]
    IN /\ CapturedFor(x.id) # {}
       /\ x.requestRaw \in {c.requestRaw : c \in CapturedFor(x.id)}
       /\ x.responseRaw \in {c.responseRaw : c \in CapturedFor(x.id)}

C5_Witness ==
  /\ \E i \in DOMAIN log :
       /\ \A p \in DOMAIN calls : calls[p].entry # log[i]
       /\ objs[log[i]].requestRaw # 0
       /\ objs[log[i]].request = "typed"
       /\ objs[log[i]].response = "typed"
  /\ \E p \in DOMAIN calls : calls[p].isNew /\ calls[p].pc = "done"

Quiescent ==
  /\ \A p \in DOMAIN calls : calls[p].pc \in {"idle", "done"}
  /\ \A k \in DOMAIN fetches : fetches[k].state # "pending"

\* C6: once every call has run to its end, every record that was in the log
\* when a reflection succeeded, and whose method then resolved, has been
\* re-decoded against a resolved method.
C6_Redecoded == Quiescent => owed = {}

\* C7: a call whose method resolved in the registry when it was made does
\* not await an in-flight reflection of its origin.
C7_NoAwaitWhenResolved ==
  \A p \in DOMAIN calls : calls[p].role = "join" => ~calls[p].resolvedAtCall

\* C8: a call whose method resolved in the registry when it was made starts
\* no reflection fetch and tryAutoReflection returns false.
C8_ResolvedSkips ==
  \A p \in DOMAIN calls :
    (Started(p) /\ calls[p].resolvedAtCall) =>
      /\ calls[p].role # "start"
      /\ ~calls[p].isNew

\* C9: every origin that enters InFlight eventually leaves it.
C9_InFlightLeaves ==
  \A o \in Origins :
    (OriginState(o) = "InFlight") ~> (OriginState(o) # "InFlight")

DataPayloads ==
  LET IsData(i) == frameFlags[i] < 128
      keep == SelectSeq([i \in DOMAIN payloads |-> i], IsData)
  IN [k \in DOMAIN keep |-> payloads[keep[k]]]

\* C11: for a body of complete frames, unframeResponse returns exactly the
\* payloads of the frames whose flags bit 7 is 0, in wire order.
C11_DataFramesKept ==
  (fpc = "done" /\ trailing = <<>>) => returned.payloads = DataPayloads

\* the payloads of the complete frames that unframeResponse keeps
KeptPayloads ==
  LET Kept(i) == isDataFrame(frameFlags[i])
      keep == SelectSeq([i \in DOMAIN payloads |-> i], Kept)
  IN [k \in DOMAIN keep |-> payloads[keep[k]]]

C13_UnframedBodyKept ==
  (xpc = "returned" /\ payloads = <<>>) => payload.bytes = buffer

IsGrpcWebText == contentType = "application/grpc-web-text"

IsGrpcOrConnect ==
  contentType \in {"application/grpc", "application/grpc-web+proto",
                   "application/grpc-web-text", "application/connect+proto"}

\* the stages that ran, given whether the gzip precondition held
StagesFor(gzip) ==
  <<"normalize">>
    \o (IF IsGrpcWebText THEN <<"text">> ELSE <<>>)
    \o (IF gzip THEN <<"gzip">> ELSE <<>>)
    \o (IF IsGrpcOrConnect THEN <<"frames">> ELSE <<>>)

\* the input as bytes when it needs no conversion
BinaryInput == ~rawData.text

C15_FailuresMarked ==
  /\ xpc # "aborted"
  /\ decodedValue # NoValue =>
       /\ Head(stages) # "none" => decodedValue.kind = "_error"
       /\ objs[2] = EntryOf(2, 1, 0, DecodedObject)
       /\ log \in {<<2>>, <<1, 2>>}

\* the full names the engine indexes
IndexedNames == {schemas[i].key : i \in DOMAIN schemas}

\* C19: findMessage answers with the first of its stages that matches: the
\* exact name if it is indexed, else a name with the dotted suffix, else a
\* name with the case-insensitive tail, else the only name with the same
\* last segment, else null
C19_StageOrder ==
  found # NoValue =>
    LET clean == cleanName(typeName)
        Suffix(k) == EndsWith(k, <<10>> \o clean)
        CaseTail(k) == EndsWith(LowerStr(k), LowerStr(clean))
        sameSegment == {k \in IndexedNames :
                          /\ lastSegment(clean) # <<>>
                          /\ lastSegment(k) = lastSegment(clean)}
    IN IF typeName = <<>> THEN found.isNull
       ELSE IF clean \in IndexedNames
         THEN ~found.isNull /\ found.fullName = clean
       ELSE IF \E k \in IndexedNames : Suffix(k)
         THEN ~found.isNull /\ Suffix(found.fullName)
       ELSE IF \E k \in IndexedNames : CaseTail(k)
         THEN ~found.isNull /\ CaseTail(found.fullName)
       ELSE IF Cardinality(sameSegment) = 1
         THEN ~found.isNull /\ found.fullName \in sameSegment
       ELSE found.isNull

\* a.B looked up in an engine that indexed c.a.B before a.B: the exact name
\* is the answer although a suffix match comes first in the index
C19_Witness ==
  /\ found # NoValue
  /\ typeName = <<1, 10, 12>>
  /\ Len(schemas) >= 2
  /\ schemas[1].key = <<3, 10, 1, 10, 12>>
  /\ found.fullName = <<1, 10, 12>>

\* the values of field `number` among the pieces, in wire order
RECURSIVE valuesOf(_, _)
valuesOf(pieces, number) ==
  IF pieces = <<>> THEN <<>>
  ELSE (IF Head(pieces).number = number
          THEN <<[kind |-> "varint", groups |-> Head(pieces).groups]>> ELSE <<>>)
         \o valuesOf(Tail(pieces), number)

\* the value the decoded object has under the field's name
decodedField(name) ==
  LET at == keyIndex(decodedValue.fields, [name |-> name, number |-> 0])
  IN decodedValue.fields[at].value

\* the buffer was decoded by _decode against the registered message a.B
DecodedTyped ==
  /\ decodedValue # NoValue
  /\ decodedValue.kind = "message"
  /\ ~found.isNull

\* C16: decoded against a schema, the occurrences of a repeated field are a
\* sequence in wire order, and a singular field that occurs several times
\* has its last value, not a sequence
C16_RepeatedAndSingular ==
  DecodedTyped /\ input \in WireInputs =>
    \A ps \in PieceSeqs :
      input = WireOf(ps) =>
        \A i \in DOMAIN TypedFields :
          LET field == TypedFields[i]
              values == valuesOf(ps, field.number)
          IN values # <<>> =>
               IF field.label = 3
                 THEN decodedField(field.name) = [kind |-> "array", items |-> values]
                 ELSE decodedField(field.name) = values[Len(values)]

\* a buffer that is one length-delimited field 1 was decoded without a schema
BlindField ==
  /\ decodedValue # NoValue
  /\ decodedValue.kind = "message"
  /\ found.isNull
  /\ Len(input) >= 2
  /\ input[1] = 10
  /\ input[2] = Len(input) - 2

\* the n bytes of the field
blindRaw == SubSeq(input, 3, Len(input))

\* the nested message if it has a field and is accepted, else the string if
\* the bytes are strictly valid UTF-8, else the hex text
blindValue(raw, accepted) ==
  LET sub == decode(<<>>, raw, 0, <<>>)
  IN IF sub.fields # <<>> /\ accepted
       THEN [kind |-> "message", fields |-> sub.fields]
     ELSE IF validUtf8(raw) THEN [kind |-> "string", bytes |-> raw]
     ELSE [kind |-> "hex", text |-> hexText(raw)]

C18_ZeroFieldEnds ==
  decodedValue # NoValue =>
    \A ps \in SeqsUpTo(Pieces, 1), z \in ZeroTags :
      LET before == WireOf(ps)
      IN (/\ Len(input) > Len(before)
          /\ SubSeq(input, 1, Len(before) + 1) = before \o <<z>>)
           => decodedValue.fields =
                IF decodedValue.kind = "raw"
                  THEN readMessage(before, 0, <<>>).fields
                  ELSE decode(fieldsOf(found), before, 0, <<>>).fields

\* the names and paths the engine resolves
RegisteredNames ==
  {schemas[i].key : i \in DOMAIN schemas}
    \cup (IF registry.isNull THEN {} ELSE registry.names)

\* C20: after clearAllSchemas findMessage and findMethod return null for
\* every name and path registered before it, the services list is empty and
\* a record of any origin starts a new reflection
C20_ClearIsFresh ==
  [][nclears' = nclears + 1 =>
       /\ \A name \in RegisteredNames :
            findMessage(registry', schemas', name).isNull
       /\ \A path \in serviceMap : ~findMethod(serviceMap', path)
       /\ services' = <<>>
       /\ \A o \in Origins : \A i \in DOMAIN UrlPaths :
            tryAutoReflection(localProtoRegistered', serviceMap',
                              reflectedServers', reflectionPromises',
                              o, UrlPaths[i]) = "start"]_vars

\* the messages and the methods of the registered descriptor set
CurrentMessages == UNION {fileSet[n].messages : n \in DOMAIN fileSet}

CurrentMethods == UNION {fileSet[n].methods : n \in DOMAIN fileSet}

\* the names looked up: the messages of the files, and B and C alone
LookupNames == messagesOfSet(FilePool) \cup {<<12>>, <<13>>}

\* C21: after any sequence of registrations every entry the message index
\* and the method index return belongs to the registered descriptor set, in
\* which a file registered again has replaced the file of the same name
C21_IndicesCurrent ==
  /\ \A name \in LookupNames :
       LET entry == findMessage(registry, schemas, name)
       IN ~entry.isNull => entry.fullName \in CurrentMessages
  /\ \A path \in serviceMap : path \in CurrentMethods

\* file d is a dependency of file f, both in the map
DependsOn(f, d) ==
  /\ fdIndex(fileMap, f) # 0
  /\ fdIndex(fileMap, d) # 0
  /\ \E i \in DOMAIN fileMap[fdIndex(fileMap, f)].dependency :
       fileMap[fdIndex(fileMap, f)].dependency[i] = d

\* d is reached from f along n dependency edges or fewer, n >= 1
RECURSIVE Reaches(_, _, _)
Reaches(f, d, n) ==
  /\ n >= 1
  /\ \/ DependsOn(f, d)
     \/ \E m \in 1..NumSortFiles : DependsOn(f, m) /\ Reaches(m, d, n - 1)

Acyclic == \A f \in 1..NumSortFiles : ~Reaches(f, f, NumSortFiles)

\* where the file is in the output
PlaceOf(f) == FirstIndex({i \in DOMAIN sorted : sorted[i] = f})

EachFileOnce ==
  /\ Len(sorted) = Len(fileMap)
  /\ \A i \in DOMAIN fileMap : \E j \in DOMAIN sorted : sorted[j] = fileMap[i].name

\* C22: for an acyclic dependency graph the output has each file of the map
\* exactly once, every file after all its dependencies that are in the map
C22_DependenciesFirst ==
  (sortPc = "done" /\ Acyclic) =>
    /\ EachFileOnce
    /\ \A f, d \in 1..NumSortFiles : DependsOn(f, d) => PlaceOf(d) < PlaceOf(f)

\* a chain 1 -> 2 -> 3 with a dependency outside the map is sorted 3, 2, 1
C22_Witness ==
  /\ sortPc = "done"
  /\ Acyclic
  /\ fileMap[1].dependency = <<2, NumSortFiles + 1>>
  /\ fileMap[2].dependency = <<3>>
  /\ sorted[1] = 3
  /\ sorted[Len(sorted)] = 1

\* C23: for a dependency graph with cycles the call returns, the output has
\* every file of the map exactly once, and a dependency that does not come
\* before its file lies on a cycle
C23_CyclesBroken ==
  /\ <>(sortPc = "done")
  /\ [](sortPc = "done" =>
          /\ EachFileOnce
          /\ \A f, d \in 1..NumSortFiles :
               (DependsOn(f, d) /\ ~(PlaceOf(d) < PlaceOf(f)))
                 => (f = d \/ Reaches(d, f, NumSortFiles)))

\* file 1 depends on itself and on 2, which depends on 1: both are sorted,
\* with a warning for each edge that closes a cycle
C23_Witness ==
  /\ sortPc = "done"
  /\ fileMap[1].dependency = <<1, 2>>
  /\ fileMap[2].dependency = <<1>>
  /\ Len(sorted) = NumSortFiles
  /\ Len(warned) >= 2

\* the built-in file of that name is among the files given to the registry
Added(w) ==
  \E i \in DOMAIN sorted :
    sorted[i] = w /\ fileMap[fdIndex(fileMap, w)].builtin

\* a collected file has the name; a collected file names it as a dependency
Supplied(w) == \E i \in DOMAIN collected : collected[i].name = w

Referenced(w) ==
  \E i \in DOMAIN collected : \E j \in DOMAIN collected[i].dependency :
    collected[i].dependency[j] = w

\* the file of the server with that name is among the files given to the
\* registry, as the last one collected under the name
Kept(w) ==
  \E i \in DOMAIN sorted :
    /\ sorted[i] = w
    /\ ~fileMap[fdIndex(fileMap, w)].builtin
    /\ \E k \in DOMAIN collected :
         /\ collected[k] = fileMap[fdIndex(fileMap, w)]
         /\ \A later \in DOMAIN collected :
              later > k => collected[later].name # w

AttemptComplete ==
  \/ fetchPc = "symbols" /\ svcAt > Len(svcNames)
  \/ fetchPc = "building"
  \/ fetchPc = "returned" /\ fetchResult.version # ""

ContactsOf(version) ==
  {i \in DOMAIN contacts : contacts[i].version = REFLECTION_SERVICES[version]}

\* C26: v1 is contacted first, v1alpha only after the v1 attempt threw,
\* listed no services or collected no descriptors; within a version the
\* first request is ListServices and every FileContainingSymbol request
\* comes after it; the result is that of the first version that collected
\* descriptors
C26_VersionOrder ==
  /\ [](contacts # <<>> =>
          /\ contacts[1].version = REFLECTION_SERVICES[1]
          /\ contacts[1].request = "ListServices")
  /\ [](\A i \in DOMAIN contacts :
          /\ contacts[i].version = REFLECTION_SERVICES[2] =>
               \A j \in ContactsOf(1) : j < i
          /\ contacts[i].request # "ListServices" =>
               \E j \in 1..(i - 1) :
                 /\ contacts[j].version = contacts[i].version
                 /\ contacts[j].request = "ListServices"
                 /\ contacts[j].reply = "list")
  /\ [][versionAt' # versionAt =>
          /\ versionAt = 1
          /\ versionAt' = 2
          /\ collected = <<>>
          /\ \/ fetchPc = "list"
             \/ fetchPc = "symbols" /\ svcAt > Len(svcNames)]_vars
  /\ [](fetchPc = "returned" =>
          IF fetchResult.version = ""
            THEN collected = <<>> /\ versionAt = Len(REFLECTION_SERVICES)
            ELSE /\ collected # <<>>
                 /\ fetchResult.version = REFLECTION_SERVICES[versionAt]
                 /\ fetchResult.value = built
                 /\ ContactsOf(versionAt) # {})

\* v1 listed a service and gave no descriptor for it, v1alpha gave one, and
\* the result is that of v1alpha
C26_Witness ==
  /\ fetchPc = "returned"
  /\ fetchResult.version = REFLECTION_SERVICES[2]
  /\ \E i \in ContactsOf(1) :
       contacts[i].request = "FileContainingSymbol" /\ contacts[i].reply # "files"
  /\ \E i \in ContactsOf(2) :
       contacts[i].request = "FileContainingSymbol" /\ contacts[i].reply = "files"

\* the position after the varint that starts at `at`, past the end of the
\* buffer when its last byte is not there
RECURSIVE varintEnd(_, _)
varintEnd(buf, at) ==
  IF at >= Len(buf) THEN at + 1
  ELSE IF buf[at + 1] < 128 THEN at + 1
  ELSE varintEnd(buf, at + 1)

\* the position after the value of that wire type that starts at `at`
valueEnd(buf, at, wireType) ==
  CASE wireType = 0 -> varintEnd(buf, at)
    [] wireType = 1 -> at + 8
    [] wireType = 5 -> at + 4
    [] wireType = 2 ->
         IF varintEnd(buf, at) > Len(buf) THEN varintEnd(buf, at)
         ELSE varintEnd(buf, at) + lengthOf(readVarint(buf, at).groups)
    [] OTHER -> at

\* the bytes of the varint that starts at `at`, as far as they are there
varintBytes(buf, at) ==
  IF varintEnd(buf, at) > Len(buf)
    THEN (IF at >= Len(buf) THEN 0 ELSE Len(buf) - at)
    ELSE varintEnd(buf, at) - at

PrimitiveReads == {"varint", "tag", "fixed32", "fixed64", "bytes"}

\* C27: after any reads and skips the cursor is within the buffer, and a
\* read that returned moved the cursor over exactly the bytes of its value
C27_CursorInBuffer ==
  /\ cursor >= 0
  /\ cursor <= Len(rbuf)
  /\ (lastRead.op # "none" /\ lastRead.ok /\ lastRead.wireType \in {0, 1, 2, 5}) =>
       lastRead.to = valueEnd(rbuf, lastRead.from, lastRead.wireType)

\* C28: a primitive read does not return when the bytes it needs go past
\* the end of the buffer, nor when its varint is longer than 10 bytes
C28_NoValuePastEnd ==
  (/\ lastRead.op \in PrimitiveReads
   /\ \/ valueEnd(rbuf, lastRead.from, lastRead.wireType) > Len(rbuf)
      \/ varintBytes(rbuf, lastRead.from) > 10 /\ lastRead.wireType \in {0, 2})
    => ~lastRead.ok

\* C29: skipField of descriptor-parser on a value of wire type 0, 1, 2 or 5
\* that is all in the buffer returns the position after the value, which is
\* the position readVarint and readLengthDelimited return for it
C29_SkipToValueEnd ==
  (/\ family = "descriptor-parser"
   /\ lastRead.op = "skip"
   /\ lastRead.wireType \in {0, 1, 2, 5}
   /\ valueEnd(rbuf, lastRead.from, lastRead.wireType) <= Len(rbuf))
    => /\ lastRead.to = valueEnd(rbuf, lastRead.from, lastRead.wireType)
       /\ lastRead.wireType = 0 =>
            lastRead.to = parserReadVarint(rbuf, lastRead.from).pos
       /\ lastRead.wireType = 2 =>
            lastRead.to = readLengthDelimited(rbuf, lastRead.from).pos

\* a varint of two bytes has been skipped after a first read
C29_Witness ==
  /\ family = "descriptor-parser"
  /\ lastRead.op = "skip"
  /\ lastRead.wireType = 0
  /\ lastRead.from = 1
  /\ lastRead.to = 3
  /\ Len(rbuf) = 4

\* the records sent towards the panel: dispatched, or kept for the flush
Records == dispatched \o pendingEntries

RecordsOf(e) == {i \in DOMAIN Records : Records[i].entry = e}

PlaceIn(seq, id) == CHOOSE i \in DOMAIN seq : seq[i] = id

InFlightAtClear(k) ==
  /\ fetches[k].state = "pending"
  /\ reflectionPromises[fetches[k].origin] # k

\* C31: the completion of a fetch that was in flight when clearAllSchemas
\* ran registers nothing and does not mark its origin as reflected, and the
\* handle of a pending fetch is taken away by nothing but a clearing
C31_ClearCancelsFetch ==
  /\ [][\A k \in DOMAIN fetches :
          (InFlightAtClear(k) /\ fetches'[k].state # "pending") =>
            /\ serviceMap' = serviceMap
            /\ schemas' = schemas
            /\ registry' = registry
            /\ services' = services
            /\ reflectedServers' = reflectedServers]_vars
  /\ [][\A o \in Origins :
          (/\ reflectionPromises[o] # 0
           /\ fetches[reflectionPromises[o]].state = "pending"
           /\ nclears' = nclears)
            => reflectionPromises'[o] = reflectionPromises[o]]_vars

\* ------------------------------------------------------------- clearLogs
\* clearLogs(force), from the toolbar or a page navigation, a task of its
\* own; preserve is the value of the preserveLog store, which the user sets
ClearLogs(force, preserve) ==
  /\ TaskBoundary
  /\ flushing' = FALSE
  /\ log' = IF preserve /\ ~force THEN log ELSE <<>>
  /\ UNCHANGED <<objs, calls, tasks, ncalls, nregs, captured, owed, ready>>
  /\ UNCHANGED schemaVars
  /\ UNCHANGED frameVars
  /\ UNCHANGED engineVars
  /\ UNCHANGED codecVars
  /\ UNCHANGED auxVars

\* addLog calls whose entries carry a request body, gzip or plain, with
\* clearLogs calls between the tasks
LogInit == StoreInit(Calls) /\ FrameIdle /\ CodecIdle /\ ToolIdle

LogNext ==
  \/ \E p \in Calls : \E id \in Ids : \E headers \in {"gzip", "plain"} :
       AddLogStart(p, id, p, 0, headers)
  \/ \E k \in DOMAIN fetches : \E result \in FetchResults : FetchComplete(k, result)
  \/ \E p \in DOMAIN calls : OwnerResume(p)
  \/ \E p \in DOMAIN calls : WaiterResume(p)
  \/ \E p \in DOMAIN calls : ProcessStart(p)
  \/ \E p \in DOMAIN calls : ProcessRequest(p)
  \/ \E p \in DOMAIN calls : LogUpdate(p)
  \/ \E p \in DOMAIN calls : \E i \in DOMAIN tasks[p] : ReprocessStep(p, i)
  \/ \E p \in DOMAIN calls : \E i \in DOMAIN tasks[p] : ReprocessSettle(p, i)
  \/ \E p \in DOMAIN calls : ReprocessFinish(p)
  \/ \E force \in BOOLEAN : \E preserve \in BOOLEAN : ClearLogs(force, preserve)

LogSpec == LogInit /\ [][LogNext]_vars

\* the ids of the records of the log, in the order of the log
LogIds == [i \in DOMAIN log |-> objs[log[i]].id]

\* C32: the step in which a reprocessAllLogs finishes leaves the records of
\* the log as they were: a record appended while it was awaiting its decodes
\* stays, a record removed by clearLogs meanwhile is not put back
C32_ReprocessKeepsLog ==
  [][\A p \in DOMAIN calls :
       (calls[p].pc = "reproc" /\ calls'[p].pc = "done") => LogIds' = LogIds]_vars

\* ------------------------------------------------ any bytes as a frame header
\* the bytes of a header that is not a server's: 0xff and 0xfb make length
\* fields whose top bit is set
HeaderBytes == {0, 1, 251, 255}

\* a buffer of one 5-byte header of any bytes and what follows it, handed to
\* unframeResponse and to extractGrpcFrames
ParseInit ==
  /\ StoreInit(Calls)
  /\ CodecIdle
  /\ ToolIdle
  /\ payloads = <<>>
  /\ frameFlags = <<>>
  /\ trailing \in SeqsUpTo({0}, MaxPayloadLen)
  /\ \E header \in [1..5 -> HeaderBytes] : wire = header \o trailing
  /\ nframed = 0
  /\ pos = 0
  /\ unframed = <<>>
  /\ returned = NoResult
  /\ fpc = "frame"
  /\ buffer = wire
  /\ xpc = "loop"
  /\ xpos = 0
  /\ chunks = <<>>
  /\ hasFraming = FALSE
  /\ extracted = NoBuffer
  /\ rawData = [text |-> FALSE, codes |-> wire]
  /\ isBase64 = FALSE
  /\ contentType = "application/grpc-web+proto"
  /\ grpcEncoding = ""
  /\ connectEncoding = ""
  /\ payload = NoBuffer
  /\ stages = <<>>

ParseNext ==
  \/ UnframeEnter
  \/ UnframeFrame
  \/ UnframeReturn
  \/ ExtractFrame
  \/ ExtractReturn

ParseSpec == ParseInit /\ [][ParseNext]_vars

\* C33: every iteration of the loop of unframeResponse and of
\* extractGrpcFrames that does not leave the loop moves its cursor forward,
\* whatever the 4 bytes of the length field are
C33_CursorAdvances ==
  [][/\ (fpc = "loop" /\ fpc' = "loop" /\ unframeVars' # unframeVars)
          => pos' > pos
     /\ (xpc = "loop" /\ xpc' = "loop" /\ extractVars' # extractVars)
          => xpos' > xpos]_vars

\* the addLog call p is at its log.update with the id of the record at i
UpdatesAt(p, i) ==
  /\ calls[p].pc = "update"
  /\ LogIds[i] = objs[calls[p].entry].id

\* C34: no two records of the log carry the same id, and the log.update of
\* an addLog whose id is in the log leaves the length of the log and puts
\* the record at the index where the id was
C34_UniqueIds ==
  /\ [](\A i \in DOMAIN log : \A j \in DOMAIN log :
          LogIds[i] = LogIds[j] => i = j)
  /\ [][\A p \in DOMAIN calls : \A i \in DOMAIN log :
          (UpdatesAt(p, i) /\ calls'[p].pc # "update") =>
            /\ Len(log') = Len(log)
            /\ LogIds'[i] = LogIds[i]
            /\ log'[i] # log[i]]_vars

\* two addLog calls with the same id have returned and the log holds one
\* record, the merged one
C34_Witness ==
  \E p \in DOMAIN calls : \E q \in DOMAIN calls :
    /\ p # q
    /\ calls[p].pc = "done"
    /\ calls[q].pc = "done"
    /\ objs[calls[p].entry].id = objs[calls[q].entry].id
    /\ Len(log) = 1
    /\ log[1] \notin {calls[p].entry, calls[q].entry}

\* C35: the records handed to the panel followed by the buffered ones are
\* the records in the order they were produced: a step only adds a record
\* at the end, so no record is handed over twice, dropped, or handed over
\* before a record that was buffered earlier
C35_DeliveredInOrder ==
  [][/\ Len(Records') >= Len(Records)
     /\ SubSeq(Records', 1, Len(Records)) = Records]_vars

\* the engines that hold the entries of sch, registered in any order
Reorders(sch) ==
  {other \in [DOMAIN sch -> {sch[i] : i \in DOMAIN sch}] :
     \A i \in DOMAIN sch : \E j \in DOMAIN sch : other[j] = sch[i]}

\* the keys of this.schemas that match at the first stage of findMessage
\* that matches any; the last stage matches when one key has the segment
winningKeys(sch, name) ==
  LET clean == cleanName(name)
      keysAt(S) == {sch[i].key : i \in S}
  IN IF name = <<>> THEN {}
     ELSE IF exactKeys(sch, clean) # {} THEN keysAt(exactKeys(sch, clean))
     ELSE IF suffixKeys(sch, clean) # {} THEN keysAt(suffixKeys(sch, clean))
     ELSE IF tailKeys(sch, clean) # {} THEN keysAt(tailKeys(sch, clean))
     ELSE IF Cardinality(segmentKeys(sch, clean)) = 1
       THEN keysAt(segmentKeys(sch, clean))
     ELSE {}

\* C36 as stated: an engine that holds the same descriptors registered in
\* another order finds the same descriptor for the name
C36_OrderIndependent ==
  found # NoValue =>
    \A other \in Reorders(schemas) :
      findMessageByStages(other, typeName) = found

\* C36: an engine that holds the same descriptors registered in another
\* order finds the same descriptor for the name when at most one registered
\* name matches at the first stage that matches any
C36_SameUnlessTied ==
  found # NoValue =>
    \A other \in Reorders(schemas) :
      Cardinality(winningKeys(schemas, typeName)) <= 1 =>
        findMessageByStages(other, typeName) = found

\* a name with no exact match was found among several descriptors, by a
\* stage at which one registered name matches
C36_Witness ==
  /\ found # NoValue
  /\ ~found.isNull
  /\ Len(schemas) >= 2
  /\ exactKeys(schemas, cleanName(typeName)) = {}
  /\ Cardinality(winningKeys(schemas, typeName)) = 1

\* ------------------------------------------------------ the services store
\* the services a registerSchema call can carry: three full names, each
\* with one of two definitions
ServiceNames == {1, 2, 3}

ServiceDefs == [fullName : ServiceNames, methods : {{2}, {3}}]

ServiceLists == SeqsUpTo(ServiceDefs, 2) \ {<<>>}

\* the method paths of the services: `/${serviceName}/${method.name}`
pathsOfServices(added) ==
  UNION {{<<0, added[i].fullName, 0, m>> : m \in added[i].methods} :
           i \in DOMAIN added}

\* registerSchema({services: added}) of the schema store: the engine's
\* serviceMap, then the services list
RegisterServices(added) ==
  /\ nregs < MaxRegistrations
  /\ nregs' = nregs + 1
  /\ serviceMap' = registerSchema(serviceMap, pathsOfServices(added))
  /\ services' = servicesAfter(services, added)
  /\ fileSet' = looseAfter(fileSet, [messages |-> <<>>,
                                     paths |-> pathsOfServices(added)])
  /\ UNCHANGED <<registry, schemas, nclears>>
  /\ UNCHANGED <<reflectedServers, reflectionPromises, fetches,
                 localProtoRegistered, reflectionStatus>>
  /\ UNCHANGED <<objs, log, calls, tasks, ncalls, captured, owed, ready, flushing>>
  /\ UNCHANGED frameVars
  /\ UNCHANGED codecVars
  /\ UNCHANGED toolVars

ServicesNext == \E added \in ServiceLists : RegisterServices(added)

ServicesSpec == Init /\ [][ServicesNext]_vars

\* the definition registered last for the service n in one call
lastOf(added, n) ==
  added[CHOOSE i \in DOMAIN added :
          /\ added[i].fullName = n
          /\ \A j \in DOMAIN added : added[j].fullName = n => j <= i]

\* C37: after a registerSchema call the services store holds one entry for
\* each full name, the entry of a service of the call is the definition the
\* call gave last for it, and the entries that were in the store keep their
\* index, those of other services unchanged
C37_OneEntryPerService ==
  [][\A added \in ServiceLists :
       RegisterServices(added) =>
         /\ \A i \in DOMAIN services' : \A j \in DOMAIN services' :
              services'[i].fullName = services'[j].fullName => i = j
         /\ \A k \in DOMAIN added : \E i \in DOMAIN services' :
              services'[i] = lastOf(added, added[k].fullName)
         /\ Len(services') >= Len(services)
         /\ \A i \in DOMAIN services :
              /\ services'[i].fullName = services[i].fullName
              /\ (\A k \in DOMAIN added : added[k].fullName # services[i].fullName)
                   => services'[i] = services[i]]_vars

\* two services are in the store and the first one was registered with
\* both of its definitions: the engine holds the methods of both
C37_Witness ==
  /\ Len(services) = 2
  /\ \A m \in {2, 3} : <<0, services[1].fullName, 0, m>> \in serviceMap

\* --------------------------------------------------- the loops over fields
\* one iteration of `while (reader.pos < reader.len)` of _decode with no
\* field definition: the tag, `if (fieldNum === 0) break`, then
\* readBytes or readField(wireType)
DecodeField ==
  LET tag == readVarint(rbuf, cursor)
  IN /\ family = "ProtoReader"
     /\ cursor < Len(rbuf)
     /\ ReadStep("field", wireTypeOf(tag.groups),
                 IF fieldNumOf(tag.groups) = 0
                   THEN [ok |-> FALSE, pos |-> tag.pos]
                   ELSE Returned(protoReadField(rbuf, tag.pos,
                                                wireTypeOf(tag.groups))))

\* the types isPackableType accepts, by what readFieldValue reads for them
PackableTypes == {1, 2, 3, 4, 5, 6, 7, 8, 13, 14, 15, 16, 17, 18}

\* readFieldValue(fieldDef, packReader, fieldDef.type): the position after
readFieldValue(buf, at, type) ==
  CASE type \in {1, 6, 16} -> protoReadFixed(buf, at, 8)
    [] type \in {2, 7, 15} -> protoReadFixed(buf, at, 4)
    [] OTHER -> readVarint(buf, at).pos

\* one iteration of `while (packReader.pos < packReader.len)`, the reader's
\* buffer being the packData of a packed field
PackedValue(type) ==
  /\ family = "ProtoReader"
  /\ cursor < Len(rbuf)
  /\ ReadStep("packed", 2, Returned(readFieldValue(rbuf, cursor, type)))

\* one iteration of `while (pos < data.length)` of the descriptor-parser
\* functions: readTag, then readLengthDelimited or skipField
ParseField ==
  LET tag == readTag(rbuf, cursor)
  IN /\ family = "descriptor-parser"
     /\ cursor < Len(rbuf)
     /\ ReadStep("field", tag.wireType,
                 Returned(IF tag.wireType = 2
                            THEN readLengthDelimited(rbuf, tag.pos).pos
                            ELSE skipField(rbuf, tag.pos, tag.wireType)))

\* the call made on the bytes of a length-delimited field: _decode on a new
\* ProtoReader(raw), or the parse function of the nested message on fieldData
Nested ==
  LET tag == IF family = "ProtoReader" THEN readVarint(rbuf, cursor)
             ELSE parserReadVarint(rbuf, cursor)
      raw == IF family = "ProtoReader" THEN readBytes(rbuf, tag.pos).bytes
             ELSE readLengthDelimited(rbuf, tag.pos).bytes
  IN /\ family \in {"ProtoReader", "descriptor-parser"}
     /\ cursor < Len(rbuf)
     /\ nreads < MaxReads
     /\ lastRead.ok
     /\ wireTypeOf(tag.groups) = 2
     /\ family = "ProtoReader" => ~fieldNumOf(tag.groups) = 0
     /\ nreads' = nreads + 1
     /\ rbuf' = raw
     /\ cursor' = 0
     /\ lastRead' = [op |-> "nested", wireType |-> 2, from |-> cursor,
                     to |-> 0, ok |-> TRUE]
     /\ UNCHANGED family
     /\ UNCHANGED <<storeVars, frameVars, engineVars, codecVars, historyVars>>
     /\ UNCHANGED <<sortVars, clientVars, captureVars, sliceVars>>

\* the bytes of the buffers: tags of field 0 and of field 1 with wire types
\* 2, 3 and 5, and a byte that continues a varint
LoopBytes == {0, 2, 10, 11, 13, 129}

LoopInit ==
  /\ StoreInit(Calls)
  /\ FrameIdle
  /\ CodecIdle
  /\ SortIdle
  /\ ClientIdle
  /\ CaptureIdle
  /\ SliceIdle
  /\ family \in {"ProtoReader", "descriptor-parser"}
  /\ rbuf \in SeqsUpTo(LoopBytes, MaxBufLen)
  /\ cursor = 0
  /\ nreads = 0
  /\ lastRead = NoRead

LoopNext ==
  \/ DecodeField
  \/ \E type \in PackableTypes : PackedValue(type)
  \/ ParseField
  \/ Nested

LoopSpec == LoopInit /\ [][LoopNext]_vars

\* C38: an iteration of a decoding or parsing loop moves the cursor
\* forward, and a nested call is made on fewer bytes than the buffer has
C38_LoopsConsume ==
  [][/\ lastRead'.op \in {"field", "packed"} => cursor' > cursor
     /\ lastRead'.op = "nested" => Len(rbuf') < Len(rbuf)]_vars

\* ------------------------------------------------- the Redux network slice
\* the methods of the payloads and the values of the filter; "" is no filter
Methods == {"a", "b"}

FilterValues == {"", "a", "b"}

\* fuse.search(value).map(r => r.item) on the collection `list`, with
\* shouldSort false: the items whose method matches, in the list's order
search(list, value) == SelectSeq(list, LAMBDA item : item.method = value)

\* the networkLog reducer; a payload of the frontend hook is ignored
networkLog(record, hook) ==
  /\ Len(received) < MaxPayloads
  /\ IF hook
       THEN UNCHANGED <<state, received>>
       ELSE /\ received' = Append(received, record)
            /\ state' =
                 IF state.filterValue # ""
                   THEN [state EXCEPT
                           !.logBak = Append(state.logBak, record),
                           !.log = search(Append(state.logBak, record),
                                          state.filterValue)]
                   ELSE [state EXCEPT !.log = Append(state.log, record)]
  /\ UNCHANGED <<storeVars, frameVars, engineVars, codecVars, historyVars>>
  /\ UNCHANGED <<sortVars, clientVars, readerVars, captureVars>>

\* the reducer of the toolbar's setFilterValue action
setFilterValue(filterValue) ==
  LET bak == IF state.logBak = <<>> /\ state.log # <<>>
               THEN state.log ELSE state.logBak
  IN /\ state' =
          IF filterValue = ""
            THEN [log |-> state.logBak, filterValue |-> "", logBak |-> <<>>]
            ELSE [log |-> search(bak, filterValue), filterValue |-> filterValue,
                  logBak |-> bak]
     /\ UNCHANGED received
     /\ UNCHANGED <<storeVars, frameVars, engineVars, codecVars, historyVars>>
     /\ UNCHANGED <<sortVars, clientVars, readerVars, captureVars>>

SliceInit ==
  /\ StoreInit(Calls)
  /\ FrameIdle
  /\ CodecIdle
  /\ SortIdle
  /\ ClientIdle
  /\ ReaderIdle
  /\ CaptureIdle
  /\ SliceIdle

SliceNext ==
  \/ \E method \in Methods : \E hook \in BOOLEAN :
       networkLog([id |-> Len(received) + 1, method |-> method], hook)
  \/ \E filterValue \in FilterValues : setFilterValue(filterValue)

SliceSpec == SliceInit /\ [][SliceNext]_vars

\* C39: while the filter value is empty, state.log holds every record the
\* slice was given
C39_NothingLostByFilter ==
  state.filterValue = "" =>
    \A i \in DOMAIN received : \E j \in DOMAIN state.log :
      state.log[j] = received[i]

====
